---- MODULE Spec2Model ----
(***************************************************************************)
(* Verification model of momory: the retrieval engine (query               *)
(* preprocessing, embedding cache, vector top-K, keyword and hybrid        *)
(* scoring, threshold filter), the memory store and the agent turn.        *)
(*                                                                         *)
(* Text is a sequence of one-character strings.  Scores are fixed-point    *)
(* numbers in units of 1/Scale; the embeddings of the model have integer   *)
(* magnitude, so every similarity and every blend is exact in that unit.   *)
(***************************************************************************)
EXTENDS Integers, Sequences, FiniteSets, TLC

(***************************************************************************)
(* Bounds of the model.                                                    *)
(***************************************************************************)
MaxMemories == 2
MaxTopK == 2

(***************************************************************************)
(* Fixed-point scale: 1.0 is Scale.                                        *)
(***************************************************************************)
Scale == 3 * 1000

Min(a, b) == IF a <= b THEN a ELSE b
Max(a, b) == IF a >= b THEN a ELSE b

(***************************************************************************)
(* Characters and strings (String.prototype methods used by the code).     *)
(***************************************************************************)
UpperChars == <<"A","B","C","D","E","F","G","H","I","J","K","L","M",
                "N","O","P","Q","R","S","T","U","V","W","X","Y","Z">>
LowerChars == <<"a","b","c","d","e","f","g","h","i","j","k","l","m",
                "n","o","p","q","r","s","t","u","v","w","x","y","z">>
DigitChars == {"0","1","2","3","4","5","6","7","8","9"}

Range(s) == {s[i] : i \in 1..Len(s)}

SpaceChars == {" ", "\n", "\t"}
WordChars == Range(UpperChars) \cup Range(LowerChars) \cup DigitChars \cup {"_"}

IsSpace(c) == c \in SpaceChars
IsWordChar(c) == c \in WordChars

LowerOf == [c \in Range(UpperChars) |->
              LowerChars[CHOOSE i \in 1..Len(UpperChars) : UpperChars[i] = c]]
Lower(c) == IF c \in DOMAIN LowerOf THEN LowerOf[c] ELSE c

toLowerCase(t) == [i \in 1..Len(t) |-> Lower(t[i])]

\* s.includes(needle)
Includes(hay, needle) ==
  \E i \in 0..(Len(hay) - Len(needle)) : SubSeq(hay, i + 1, i + Len(needle)) = needle

\* s.trim()
trim(t) ==
  LET keep == {i \in 1..Len(t) : ~IsSpace(t[i])}
  IN IF keep = {} THEN <<>>
     ELSE SubSeq(t, CHOOSE i \in keep : \A j \in keep : i <= j,
                    CHOOSE i \in keep : \A j \in keep : i >= j)

\* words.join(sep)
RECURSIVE join(_, _)
join(words, sep) ==
  IF words = <<>> THEN <<>>
  ELSE IF Len(words) = 1 THEN words[1]
  ELSE words[1] \o sep \o join(Tail(words), sep)

\* the characters of a word as one string value (for table look-ups)
RECURSIVE AsString(_)
AsString(w) == IF w = <<>> THEN "" ELSE Head(w) \o AsString(Tail(w))

\* s.split(/\s+/): the pieces between maximal runs of whitespace; a leading
\* or trailing run leaves an empty first or last piece.
RECURSIVE SplitWs(_, _, _)
SplitWs(t, i, cur) ==
  IF i > Len(t) THEN <<cur>>
  ELSE IF IsSpace(t[i])
       THEN IF i > 1 /\ IsSpace(t[i - 1])
            THEN SplitWs(t, i + 1, cur)
            ELSE <<cur>> \o SplitWs(t, i + 1, <<>>)
       ELSE SplitWs(t, i + 1, Append(cur, t[i]))

(***************************************************************************)
(* utils/keywords.ts                                                       *)
(***************************************************************************)
STOP_WORDS ==
  {"the","is","at","which","on","a","an","and","or","but","in","with","to",
   "for","of","as","by","from","that","this","these","those","was","were",
   "been","be","have","has","had","do","does","did","will","would","could",
   "should","may","might","can","are","am","it","its","what","where","when",
   "who","why","how","you","your","my","me","i","we","they","them","their"}

normalizeKeyword(word) ==
  LET w == AsString(word)
  IN CASE w = "travelling" -> <<"t","r","a","v","e","l","i","n","g">>
       [] w = "cancelled"  -> <<"c","a","n","c","e","l","e","d">>
       [] w = "colour"     -> <<"c","o","l","o","r">>
       [] w = "favour"     -> <<"f","a","v","o","r">>
       [] w = "centre"     -> <<"c","e","n","t","e","r">>
       [] w = "metre"      -> <<"m","e","t","e","r">>
       [] w = "theatre"    -> <<"t","h","e","a","t","e","r">>
       [] w = "analyse"    -> <<"a","n","a","l","y","z","e">>
       [] w = "organise"   -> <<"o","r","g","a","n","i","z","e">>
       [] w = "realise"    -> <<"r","e","a","l","i","z","e">>
       [] OTHER            -> word

extractKeywords(text) ==
  LET lowered == toLowerCase(text)
      cleaned == [i \in 1..Len(lowered) |->
                    IF IsWordChar(lowered[i]) \/ IsSpace(lowered[i])
                    THEN lowered[i] ELSE " "]
      words   == SplitWs(cleaned, 1, <<>>)
      long    == SelectSeq(words, LAMBDA w : Len(w) > 2)
      kept    == SelectSeq(long, LAMBDA w : AsString(w) \notin STOP_WORDS)
  IN [i \in 1..Len(kept) |-> normalizeKeyword(kept[i])]

calculateKeywordScore(queryKeywords, documentText) ==
  IF Len(queryKeywords) = 0 THEN 0
  ELSE
    LET docKeywordSet == Range(extractKeywords(documentText))
        matchCount == Cardinality({i \in 1..Len(queryKeywords) :
                                     queryKeywords[i] \in docKeywordSet})
        baseScore == (matchCount * Scale) \div Len(queryKeywords)
        queryText == join(queryKeywords, <<" ">>)
        docText == toLowerCase(documentText)
        phraseBoost ==
          IF Includes(docText, queryText) THEN (3 * Scale) \div 10
          ELSE IF \E i \in 1..(Len(queryKeywords) - 1) :
                    Includes(docText, join(SubSeq(queryKeywords, i, i + 1), <<" ">>))
               THEN (15 * Scale) \div 100
               ELSE 0
    IN Min(Scale, baseScore + phraseBoost)

\* vectorWeight is given in units of 1/Scale
calculateHybridScore(vectorSimilarity, keywordScore, vectorWeight) ==
  LET keywordWeight == Scale - vectorWeight
  IN (vectorSimilarity * vectorWeight + keywordScore * keywordWeight) \div Scale

(***************************************************************************)
(* utils/vector.ts                                                         *)
(***************************************************************************)
RECURSIVE SumTo(_, _)
SumTo(f, n) == IF n = 0 THEN 0 ELSE f[n] + SumTo(f, n - 1)

\* Math.sqrt on the perfect squares the model's vectors produce
Sqrt(n) == CHOOSE r \in 0..n : r * r <= n /\ (r + 1) * (r + 1) > n

\* the throw of cosineSimilarity
DimensionMismatch(a, b) == Len(a) # Len(b)

\* cosineSimilarity(a, b) for vectors of equal length, in units of 1/Scale
cosineSimilarity(a, b) ==
  LET dotProduct == SumTo([i \in 1..Len(a) |-> a[i] * b[i]], Len(a))
      magnitudeA == Sqrt(SumTo([i \in 1..Len(a) |-> a[i] * a[i]], Len(a)))
      magnitudeB == Sqrt(SumTo([i \in 1..Len(b) |-> b[i] * b[i]], Len(b)))
  IN IF magnitudeA = 0 \/ magnitudeB = 0 THEN 0
     ELSE (dotProduct * Scale) \div (magnitudeA * magnitudeB)

\* Array.prototype.sort((a, b) => key(b) - key(a)): a stable descending sort;
\* keys[i] is the key of s[i]
SortDesc(s, keys) ==
  LET rank(i) == 1 + Cardinality({j \in 1..Len(s) :
                                    \/ keys[j] > keys[i]
                                    \/ keys[j] = keys[i] /\ j < i})
  IN [p \in 1..Len(s) |-> s[CHOOSE i \in 1..Len(s) : rank(i) = p]]

\* Array.prototype.slice(0, end)
slice0(s, end) ==
  LET e == IF end < 0 THEN Max(Len(s) + end, 0) ELSE Min(end, Len(s))
  IN SubSeq(s, 1, e)

\* Variant: the top-K slice is taken without sorting.
findTopSimilarUnsorted(query, vectors, topK) ==
  slice0([i \in 1..Len(vectors) |->
            [id |-> vectors[i].id,
             similarity |-> cosineSimilarity(query, vectors[i].vector),
             data |-> vectors[i].data]], topK)

\* findTopSimilar(query, vectors, topK) when no candidate's dimension differs
findTopSimilar(query, vectors, topK) ==
  LET similarities == [i \in 1..Len(vectors) |->
                         [id |-> vectors[i].id,
                          similarity |-> cosineSimilarity(query, vectors[i].vector),
                          data |-> vectors[i].data]]
      sorted == SortDesc(similarities,
                         [i \in 1..Len(similarities) |-> similarities[i].similarity])
  IN slice0(sorted, topK)

\* the array `vectors` after the call: map() builds a new array and the sort
\* is done on that one
vectorsAfterFindTopSimilar(query, vectors, topK) == vectors

\* findTopSimilar throws when cosineSimilarity throws for some candidate
findTopSimilarThrows(query, vectors) ==
  \E i \in 1..Len(vectors) : DimensionMismatch(query, vectors[i].vector)

(***************************************************************************)
(* utils/chunking.ts                                                       *)
(***************************************************************************)
NL == "\n"

\* text.split('\n')
RECURSIVE splitLines(_, _, _)
splitLines(t, i, cur) ==
  IF i > Len(t) THEN <<cur>>
  ELSE IF t[i] = NL THEN <<cur>> \o splitLines(t, i + 1, <<>>)
  ELSE splitLines(t, i + 1, Append(cur, t[i]))

\* Math.ceil(a / b) for a >= 0 and b > 0 (overlapChars / currentSize *
\* currentLines.length, computed exactly)
ceilDiv(a, b) == (a + b - 1) \div b

\* currentLines.slice(-n): slice(-0) is slice(0), the whole array
sliceLast(s, n) ==
  IF n = 0 \/ n >= Len(s) THEN s ELSE SubSeq(s, Len(s) - n + 1, Len(s))

\* the locals of chunkText before the first line
chunkStart ==
  [chunks |-> <<>>, currentLines |-> <<>>, currentSize |-> 0, startLine |-> 0,
   charStart |-> 0]

\* Variant: charEnd counts a newline after every line, as currentSize does.
textChunkCountingNewlines(currentLines, startLine, endLine, charStart) ==
  [text |-> join(currentLines, <<NL>>), startLine |-> startLine,
   endLine |-> endLine, charStart |-> charStart,
   charEnd |-> charStart + Len(join(currentLines, <<NL>>)) + 1]

\* a TextChunk made of the buffered lines
textChunk(currentLines, startLine, endLine, charStart) ==
  [text |-> join(currentLines, <<NL>>), startLine |-> startLine,
   endLine |-> endLine, charStart |-> charStart,
   charEnd |-> charStart + Len(join(currentLines, <<NL>>))]

\* lines 61-83: the chunk is full; i is the index of the line just pushed
closeChunk(st, pushed, size, i, overlapLineCount) ==
  [chunks |-> Append(st.chunks, textChunk(pushed, st.startLine, i, st.charStart)),
   currentLines |-> sliceLast(pushed, overlapLineCount),
   currentSize |-> Len(join(sliceLast(pushed, overlapLineCount), <<NL>>)),
   startLine |-> i - overlapLineCount + 1,
   charStart |-> st.charStart + Len(join(pushed, <<NL>>))
                   - Len(join(sliceLast(pushed, overlapLineCount), <<NL>>))]

\* lines 55-84: one turn of the loop, on line i (from 0)
chunkLine(st, pushed, size, i, options) ==
  IF size >= options.maxChars
  THEN closeChunk(st, pushed, size, i,
                  ceilDiv(options.overlapChars * Len(pushed), size))
  ELSE [st EXCEPT !.currentLines = pushed, !.currentSize = size]

\* lines 54-85: the loop over the lines from line i on
RECURSIVE chunkLoop(_, _, _, _)
chunkLoop(lines, i, st, options) ==
  IF i >= Len(lines) THEN st
  ELSE chunkLoop(lines, i + 1,
                 chunkLine(st, Append(st.currentLines, lines[i + 1]),
                           st.currentSize + Len(lines[i + 1]) + 1, i, options),
                 options)

\* lines 87-99: the remaining lines become the final chunk
finishChunks(st, lastLine) ==
  IF Len(st.currentLines) > 0
  THEN Append(st.chunks,
              textChunk(st.currentLines, st.startLine, lastLine, st.charStart))
  ELSE st.chunks

\* Variant: the lines left in the buffer after the loop are dropped.
chunkTextDroppingRest(text, options) ==
  chunkLoop(splitLines(text, 1, <<>>), 0, chunkStart, options).chunks

\* chunkText(text, options)
chunkText(text, options) ==
  finishChunks(chunkLoop(splitLines(text, 1, <<>>), 0, chunkStart, options),
               Len(splitLines(text, 1, <<>>)) - 1)

\* DEFAULT_CHUNK_OPTIONS (1600 and 320 characters) at the scale of the
\* model's texts: the overlap is 20% of maxChars
DEFAULT_CHUNK_OPTIONS == [maxChars |-> 5, overlapChars |-> 1]

(***************************************************************************)
(* core/retrieval.ts: preprocessQuery                                      *)
(***************************************************************************)
\* the words of the patterns, as character sequences
W ==
  [hello |-> <<"h","e","l","l","o">>,
   hi |-> <<"h","i">>,
   hey |-> <<"h","e","y">>,
   greeting |-> <<"g","r","e","e","t","i","n","g">>,
   do |-> <<"d","o">>,
   can |-> <<"c","a","n">>,
   could |-> <<"c","o","u","l","d">>,
   would |-> <<"w","o","u","l","d">>,
   you |-> <<"y","o","u">>,
   please |-> <<"p","l","e","a","s","e">>,
   i |-> <<"i">>,
   want |-> <<"w","a","n","t">>,
   need |-> <<"n","e","e","d">>,
   like |-> <<"l","i","k","e">>,
   to |-> <<"t","o">>,
   have |-> <<"h","a","v","e">>,
   know |-> <<"k","n","o","w">>,
   remember |-> <<"r","e","m","e","m","b","e","r">>,
   what |-> <<"w","h","a","t">>,
   where |-> <<"w","h","e","r","e">>,
   when |-> <<"w","h","e","n">>,
   is |-> <<"i","s">>]
SP == <<" ">>

\* the number of consecutive characters of `set` in t from position p on
RECURSIVE RunLen(_, _, _)
RunLen(t, p, set) ==
  IF p <= Len(t) /\ t[p] \in set THEN 1 + RunLen(t, p + 1, set) ELSE 0

\* the lower-case literal lit stands at position i of t (flag i)
LiteralAt(t, i, lit) ==
  /\ i + Len(lit) - 1 <= Len(t)
  /\ toLowerCase(SubSeq(t, i, i + Len(lit) - 1)) = lit

\* t.replace(/^(alt1|alt2|...)[seps]+/i, '')
stripPrefix(t, alts, seps) ==
  LET ok == {i \in 1..Len(alts) :
               LiteralAt(t, 1, alts[i]) /\ RunLen(t, Len(alts[i]) + 1, seps) >= 1}
  IN IF ok = {} THEN t
     ELSE LET a == alts[CHOOSE i \in ok : \A j \in ok : i <= j]
              n == Len(a) + RunLen(t, Len(a) + 1, seps)
          IN SubSeq(t, n + 1, Len(t))

\* One question pattern, /HEAD(\w+)?\s+(.+?)\?/i, matched at position i of t:
\* \s+ is greedy and gives characters back, (.+?) is lazy and never crosses a
\* line break.

\* the alternatives of HEAD that stand at position i
headsAt(t, i, heads) == {h \in 1..Len(heads) : LiteralAt(t, i, heads[h])}

\* the position after HEAD
afterHead(t, i, heads) == i + Len(heads[CHOOSE h \in headsAt(t, i, heads) : TRUE])

\* the length of (\w+)
wordLen(t, p0, withWord) == IF withWord THEN RunLen(t, p0, WordChars) ELSE 0

\* <<spaces, length>> of every way \s+(.+?)\? matches from position p
questionCands(t, p) ==
  {sm \in (1..RunLen(t, p, SpaceChars)) \X (1..Len(t)) :
     /\ p + sm[1] + sm[2] <= Len(t)
     /\ t[p + sm[1] + sm[2]] = "?"
     /\ \A j \in (p + sm[1])..(p + sm[1] + sm[2] - 1) : t[j] # "\n"}

\* the way the regex engine finds first: most spaces, then the shortest rest
bestCand(cands) ==
  CHOOSE sm \in cands : \A o \in cands :
    sm[1] > o[1] \/ (sm[1] = o[1] /\ sm[2] <= o[2])

matchRecord(t, i, p0, p, best) ==
  [from |-> i, to |-> p + best[1] + best[2],
   word |-> SubSeq(t, p0, p - 1),
   rest |-> SubSeq(t, p + best[1], p + best[1] + best[2] - 1)]

matchAfterHead(t, i, p0, w, withWord) ==
  IF (withWord /\ w = 0) \/ questionCands(t, p0 + w) = {}
  THEN <<>>
  ELSE <<matchRecord(t, i, p0, p0 + w, bestCand(questionCands(t, p0 + w)))>>

\* <<>> when there is no match at i, else <<[from, to, word, rest]>>
questionMatchAt(t, i, heads, withWord) ==
  IF headsAt(t, i, heads) = {}
  THEN <<>>
  ELSE matchAfterHead(t, i, afterHead(t, i, heads),
                      wordLen(t, afterHead(t, i, heads), withWord), withWord)

matchPositions(t, heads, withWord) ==
  {i \in 1..Len(t) : questionMatchAt(t, i, heads, withWord) # <<>>}

\* processed.replace(pattern, replace): the match m becomes $rest, or "$word $rest"
replaceMatch(t, m, withWord) ==
  SubSeq(t, 1, m.from - 1)
    \o (IF withWord THEN m.word \o SP \o m.rest ELSE m.rest)
    \o SubSeq(t, m.to + 1, Len(t))

leftmost(positions) == CHOOSE k \in positions : \A j \in positions : k <= j

\* processed.match(pattern), then the replace of the leftmost match
questionRewrite(t, heads, withWord) ==
  IF matchPositions(t, heads, withWord) = {}
  THEN [matched |-> FALSE, text |-> t]
  ELSE [matched |-> TRUE,
        text |-> replaceMatch(t,
                   questionMatchAt(t, leftmost(matchPositions(t, heads, withWord)),
                                   heads, withWord)[1],
                   withWord)]

questionPatterns ==
  << [heads |-> << W.do \o SP \o W.you \o SP \o W.have,
                   W.do \o SP \o W.you \o SP \o W.know,
                   W.do \o SP \o W.you \o SP \o W.remember >>, withWord |-> FALSE],
     [heads |-> << W.do \o SP \o W.i \o SP >>, withWord |-> TRUE],
     [heads |-> << W.what \o SP \o W.is >>, withWord |-> FALSE],
     [heads |-> << W.what \o <<"'", "s">> >>, withWord |-> FALSE],
     [heads |-> << W.where \o SP \o W.is >>, withWord |-> FALSE],
     [heads |-> << W.when \o SP \o W.is >>, withWord |-> FALSE] >>

\* what each pattern makes of t
rewrites(t) ==
  [k \in 1..Len(questionPatterns) |->
     questionRewrite(t, questionPatterns[k].heads, questionPatterns[k].withWord)]

\* the loop over questionPatterns: the first pattern that matches is applied
firstQuestionRewrite(t, rs) ==
  IF \A k \in DOMAIN rs : ~rs[k].matched
  THEN t
  ELSE rs[CHOOSE k \in DOMAIN rs :
            rs[k].matched /\ \A j \in 1..(k - 1) : ~rs[j].matched].text

\* lines 65-69: the processed text if it has 3 characters or more
processedOrOriginal(processed, query) ==
  IF Len(processed) >= 3 THEN processed ELSE query

stripConversational(query) ==
  stripPrefix(
    stripPrefix(
      stripPrefix(
        stripPrefix(query, <<W.hello, W.hi, W.hey, W.greeting \o <<"s">>, W.greeting>>,
                    SpaceChars \cup {","}),
        <<W.do \o SP \o W.you, W.can \o SP \o W.you,
          W.could \o SP \o W.you, W.would \o SP \o W.you>>, SpaceChars),
      <<W.please>>, SpaceChars),
    <<W.i \o SP \o W.want \o SP \o W.to,
      W.i \o SP \o W.need \o SP \o W.to,
      W.i \o SP \o W.would \o SP \o W.like \o SP \o W.to>>, SpaceChars)

rewriteQuestion(t) == firstQuestionRewrite(t, rewrites(t))

preprocessQuery(query) ==
  processedOrOriginal(trim(rewriteQuestion(stripConversational(query))), query)

(***************************************************************************)
(* Configuration (loadConfig defaults).                                    *)
(***************************************************************************)
topK == 10
relevanceThreshold == (65 * Scale) \div 100
embeddingCacheSize == 1
maxHistoryTurns == 10

(***************************************************************************)
(* The texts of the model: user queries and memory contents.               *)
(***************************************************************************)

\* "what is my name?"
QueryName ==
  <<"w","h","a","t"," ","i","s"," ","m","y"," ","n","a","m","e","?">>
QueryHi == <<"h","i">>
\* "Pizza party"
QueryPizza == <<"P","i","z","z","a"," ","p","a","r","t","y">>
\* "hey sam"
QueryHey == <<"h","e","y"," ","s","a","m">>
Queries == {QueryName, QueryHi, QueryPizza, QueryHey}

\* "my name is sam", "pizza party planner", "pizza time"
ContentName == <<"m","y"," ","n","a","m","e"," ","i","s"," ","s","a","m">>
ContentPlanner ==
  <<"p","i","z","z","a"," ","p","a","r","t","y"," ","p","l","a","n","n","e","r">>
ContentTime == <<"p","i","z","z","a"," ","t","i","m","e">>
Contents == {ContentName, ContentPlanner, ContentTime}
CandidateContents == {ContentName, ContentPlanner}

\* The text functions on the texts of the model, computed once.
focusedQueryOf == [q \in Queries |-> preprocessQuery(q)]

\* Variant: the keywords are taken from the preprocessed query.
keywordsOfFocused == [q \in Queries |-> extractKeywords(focusedQueryOf[q])]

\* extractKeywords(query) of line 123, on the original query
keywordsOf == [q \in Queries |-> extractKeywords(q)]
keywordScoreOf ==
  [q \in Queries |-> [c \in Contents |-> calculateKeywordScore(keywordsOf[q], c)]]

(***************************************************************************)
(* The embedding collaborator (model.embedContent): a fixed function of    *)
(* the text.  Every vector has magnitude 10 or 0.                          *)
(***************************************************************************)
Embed(text) ==
  CASE text = <<"m","y"," ","n","a","m","e">> -> <<10, 0, 0, 0>>
    [] text = QueryHi              -> <<0, 0, 0, 0>>
    [] text = QueryPizza           -> <<1, 7, 1, 7>>
    [] text = ContentName          -> <<7, 1, 1, 7>>
    [] text = ContentPlanner       -> <<8, 0, 0, 6>>
    [] text = ContentTime          -> <<5, 1, 5, 7>>
    [] OTHER                       -> <<5, 5, 5, 5>>

(***************************************************************************)
(* services/gemini.ts: the embedding cache                                 *)
(***************************************************************************)
EmptyCache == <<>>

\* addToCache(text, embedding) on the cache map and its key list, in a process
\* configured with embeddingCacheSize = maxSize
addToCacheOf(cache, keys, text, embedding, maxSize) ==
  LET full == Cardinality(DOMAIN cache) >= maxSize
      shifted == IF full /\ keys # <<>> THEN Tail(keys) ELSE keys
      \* `if (oldestKey)`: undefined and the empty string are falsy
      evict == IF full /\ keys # <<>> /\ Head(keys) # <<>> THEN {Head(keys)} ELSE {}
      kept == [t \in (DOMAIN cache) \ evict |-> cache[t]]
  IN [cache |-> [t \in (DOMAIN kept) \cup {text} |->
                   IF t = text THEN embedding ELSE kept[t]],
      keys |-> Append(shifted, text)]

\* addToCache(text, embedding) under the configuration of the model
addToCache(cache, keys, text, embedding) ==
  addToCacheOf(cache, keys, text, embedding, embeddingCacheSize)

\* Variant: a failed request is tried a second time.
generateEmbeddingRetrying(cache, keys, text, up) ==
  IF text \in DOMAIN cache
  THEN [ok |-> TRUE, value |-> cache[text], cache |-> cache, keys |-> keys,
        requests |-> 0]
  ELSE IF up
  THEN [ok |-> TRUE, value |-> Embed(text),
        cache |-> addToCache(cache, keys, text, Embed(text)).cache,
        keys |-> addToCache(cache, keys, text, Embed(text)).keys, requests |-> 1]
  ELSE [ok |-> FALSE, value |-> <<>>, cache |-> cache, keys |-> keys,
        requests |-> 2]

\* Variant: a failed request leaves an all-zero vector in the cache.
generateEmbeddingCachingFailure(cache, keys, text, up) ==
  IF text \in DOMAIN cache
  THEN [ok |-> TRUE, value |-> cache[text], cache |-> cache, keys |-> keys,
        requests |-> 0]
  ELSE IF up
  THEN [ok |-> TRUE, value |-> Embed(text),
        cache |-> addToCache(cache, keys, text, Embed(text)).cache,
        keys |-> addToCache(cache, keys, text, Embed(text)).keys, requests |-> 1]
  ELSE [ok |-> FALSE, value |-> <<>>,
        cache |-> addToCache(cache, keys, text, <<0, 0, 0, 0>>).cache,
        keys |-> addToCache(cache, keys, text, <<0, 0, 0, 0>>).keys,
        requests |-> 1]

\* generateEmbedding(text); up: the embedding service answers this request
generateEmbedding(cache, keys, text, up) ==
  IF text \in DOMAIN cache
  THEN [ok |-> TRUE, value |-> cache[text], cache |-> cache, keys |-> keys,
        requests |-> 0]
  ELSE IF up
  THEN LET added == addToCache(cache, keys, text, Embed(text))
       IN [ok |-> TRUE, value |-> Embed(text), cache |-> added.cache,
           keys |-> added.keys, requests |-> 1]
  ELSE [ok |-> FALSE, value |-> <<>>, cache |-> cache, keys |-> keys,
        requests |-> 1]

(***************************************************************************)
(* services/storage.ts and db/schema.sql                                   *)
(***************************************************************************)
EmptyTables ==
  [created |-> TRUE, memories |-> <<>>, summaries |-> <<>>, summary_chunks |-> <<>>]

\* Variant: the schema is created anew at every open (DROP TABLE, CREATE TABLE).
initializeSchemaFresh(file) == EmptyTables

\* database.exec(schema): CREATE TABLE IF NOT EXISTS keeps existing rows
initializeSchema(file) == IF file.created THEN file ELSE EmptyTables

\* getDatabase(): the file as the handle sees it after a lazy open
getDatabase(handle, file) == IF handle = "null" THEN initializeSchema(file) ELSE file

\* How one storage call ends: it succeeds, the open throws, or the
\* statement throws after the open.
StorageOutcomes(handle) ==
  {"ok", "statementFails"} \cup (IF handle = "null" THEN {"openFails"} ELSE {})

handleAfter(handle, outcome) == IF outcome = "openFails" THEN handle ELSE "open"

\* Variant: a statement that succeeds counts an access on every memory it read.
fileAfterTouching(handle, file, outcome) ==
  IF outcome = "openFails" THEN file
  ELSE IF outcome = "statementFails" THEN getDatabase(handle, file)
  ELSE [getDatabase(handle, file) EXCEPT
          !.memories = [i \in DOMAIN @ |-> [@[i] EXCEPT !.accessCount = @ + 1]]]

\* the file after a storage call that writes no row
fileAfter(handle, file, outcome) ==
  IF outcome = "openFails" THEN file ELSE getDatabase(handle, file)

Reverse(s) == [i \in 1..Len(s) |-> s[Len(s) + 1 - i]]

\* SELECT * FROM memories ORDER BY created_at DESC (the created_at index read
\* backwards: rows of one millisecond come latest insert first)
getAllMemories(file) ==
  LET rows == Reverse(file.memories)
  IN SortDesc(rows, [i \in 1..Len(rows) |-> rows[i].createdAt])

\* SELECT * FROM summary_chunks ORDER BY created_at DESC
getAllSummaryChunks(file) ==
  LET rows == Reverse(file.summary_chunks)
  IN SortDesc(rows, [i \in 1..Len(rows) |-> rows[i].createdAt])

(***************************************************************************)
(* core/retrieval.ts: retrieveContext after the loads                      *)
(***************************************************************************)
NoOptions == <<>>
optionOr(options, name, default) ==
  IF name \in DOMAIN options THEN options[name] ELSE default

asVectors(rows) ==
  [i \in 1..Len(rows) |-> [id |-> rows[i].id, vector |-> rows[i].embedding,
                           data |-> rows[i]]]

\* Variant: every memory is a candidate, whatever memoryTopK.
memoryResultsUncut(queryEmbedding, allMemories, memoryTopK) ==
  IF Len(allMemories) > 0
  THEN findTopSimilar(queryEmbedding, asVectors(allMemories), Len(allMemories))
  ELSE <<>>

\* Step 4: vector search on memories
memoryResults(queryEmbedding, allMemories, memoryTopK) ==
  IF Len(allMemories) > 0
  THEN findTopSimilar(queryEmbedding, asVectors(allMemories), memoryTopK)
  ELSE <<>>

\* Variant: the blend is applied whatever the vector similarity.
hybridScoreBlended(similarity, keywordScore) ==
  calculateHybridScore(similarity, keywordScore, (8 * Scale) \div 10)

\* Variant: no hybrid scoring, the score is the vector similarity.
hybridScoreSimilarity(similarity, keywordScore) == similarity

\* the adaptive rule of step 4.5
hybridScore(similarity, keywordScore) ==
  IF similarity >= (7 * Scale) \div 10
  THEN similarity
  ELSE calculateHybridScore(similarity, keywordScore, (8 * Scale) \div 10)

\* Variant: the candidates stay in vector-similarity order after the scoring.
hybridResultsUnsorted(query, results) ==
  [i \in 1..Len(results) |->
     LET k == keywordScoreOf[query][results[i].data.content]
     IN [id |-> results[i].id, similarity |-> results[i].similarity,
         data |-> results[i].data, keywordScore |-> k,
         hybridScore |-> hybridScore(results[i].similarity, k)]]

\* Step 4.5: hybrid scoring and the re-sort by hybrid score
hybridResults(query, results) ==
  LET scored == [i \in 1..Len(results) |->
                   LET k == keywordScoreOf[query][results[i].data.content]
                   IN [id |-> results[i].id, similarity |-> results[i].similarity,
                       data |-> results[i].data, keywordScore |-> k,
                       hybridScore |-> hybridScore(results[i].similarity, k)]]
  IN SortDesc(scored, [i \in 1..Len(scored) |-> scored[i].hybridScore])

\* Step 5: vector search on summary chunks
chunkResults(queryEmbedding, allChunks, summaryTopK) ==
  IF Len(allChunks) > 0
  THEN findTopSimilar(queryEmbedding, asVectors(allChunks), summaryTopK)
  ELSE <<>>

\* Variant: the memories are filtered and reported by vector similarity.
relevantMemoriesBySimilarity(hybrid, minRelevance) ==
  LET kept == SelectSeq(hybrid, LAMBDA r : r.similarity >= minRelevance)
  IN [i \in 1..Len(kept) |-> [memory |-> kept[i].data, similarity |-> kept[i].similarity]]

\* Step 6: filter by relevance threshold
relevantMemories(hybrid, minRelevance) ==
  LET kept == SelectSeq(hybrid, LAMBDA r : r.hybridScore >= minRelevance)
  IN [i \in 1..Len(kept) |-> [memory |-> kept[i].data, similarity |-> kept[i].hybridScore]]

relevantChunks(results, minRelevance) ==
  LET kept == SelectSeq(results, LAMBDA r : r.similarity >= minRelevance)
  IN [i \in 1..Len(kept) |-> [chunk |-> kept[i].data, similarity |-> kept[i].similarity]]

\* AgentResponse (agent.ts); promptTokens comes from prompts.ts
NoAgentResponse ==
  [message |-> <<>>, memoriesExtracted |-> 0, memoriesFound |-> 0,
   summaryChunksFound |-> 0]

\* A Result<T, Error>; thrown: an exception left the function instead
NoResult ==
  [done |-> FALSE, ok |-> FALSE, thrown |-> FALSE, error |-> "none",
   memories |-> <<>>, summaryChunks |-> <<>>, recent |-> <<>>, query |-> <<>>,
   queryEmbedding |-> <<>>, agent |-> NoAgentResponse]

failure(error) == [NoResult EXCEPT !.done = TRUE, !.error = error]

\* lines 147-255 of retrieveContext when no similarity computation throws:
\* the Result with the locals hybridResults and chunkResults and the number
\* of findTopSimilar calls made
ranked(query, queryEmbedding, allMemories, allChunks, memoryTopK, summaryTopK, minRelevance) ==
  LET hybrid == hybridResults(query,
                  memoryResults(queryEmbedding, allMemories, memoryTopK))
      chunks == chunkResults(queryEmbedding, allChunks, summaryTopK)
  IN [result |-> [NoResult EXCEPT
                    !.done = TRUE, !.ok = TRUE,
                    !.memories = relevantMemories(hybrid, minRelevance),
                    !.summaryChunks = relevantChunks(chunks, minRelevance),
                    !.query = query,
                    !.queryEmbedding = queryEmbedding],
      hybridResults |-> hybrid, chunkResults |-> chunks,
      searches |-> (IF Len(allMemories) > 0 THEN 1 ELSE 0)
                     + (IF Len(allChunks) > 0 THEN 1 ELSE 0)]

\* Variant: a row whose embedding has another dimension is left out.
rankAndFilterSkipping(query, queryEmbedding, allMemories, allChunks, memoryTopK, summaryTopK, minRelevance) ==
  ranked(query, queryEmbedding,
         SelectSeq(allMemories, LAMBDA m : ~DimensionMismatch(queryEmbedding, m.embedding)),
         SelectSeq(allChunks, LAMBDA c : ~DimensionMismatch(queryEmbedding, c.embedding)),
         memoryTopK, summaryTopK, minRelevance)

\* Variant: a search on an empty collection is an error.
rankAndFilterNeedingRows(query, queryEmbedding, allMemories, allChunks, memoryTopK, summaryTopK, minRelevance) ==
  IF Len(allMemories) = 0 \/ Len(allChunks) = 0
  THEN [result |-> failure("EmptyCollection"), hybridResults |-> <<>>,
        chunkResults |-> <<>>, searches |-> 0]
  ELSE IF findTopSimilarThrows(queryEmbedding, asVectors(allMemories))
            \/ findTopSimilarThrows(queryEmbedding, asVectors(allChunks))
  THEN [result |-> failure("DimensionMismatch"), hybridResults |-> <<>>,
        chunkResults |-> <<>>, searches |-> 1]
  ELSE ranked(query, queryEmbedding, allMemories, allChunks,
              memoryTopK, summaryTopK, minRelevance)

\* lines 147-261 of retrieveContext: the searches, the scoring, the filter,
\* and the catch that turns a throw of cosineSimilarity into a failure
rankAndFilter(query, queryEmbedding, allMemories, allChunks, memoryTopK, summaryTopK, minRelevance) ==
  LET memoriesThrow ==
        Len(allMemories) > 0 /\ findTopSimilarThrows(queryEmbedding, asVectors(allMemories))
      chunksThrow ==
        Len(allChunks) > 0 /\ findTopSimilarThrows(queryEmbedding, asVectors(allChunks))
  IN IF memoriesThrow \/ chunksThrow
     THEN [result |-> failure("DimensionMismatch"), hybridResults |-> <<>>,
           chunkResults |-> <<>>,
           searches |-> (IF Len(allMemories) > 0 THEN 1 ELSE 0)
                          + (IF ~memoriesThrow /\ Len(allChunks) > 0 THEN 1 ELSE 0)]
     ELSE ranked(query, queryEmbedding, allMemories, allChunks,
                 memoryTopK, summaryTopK, minRelevance)

(***************************************************************************)
(* State.                                                                  *)
(***************************************************************************)
VARIABLES
  database,             \* the SQLite file: the tables and their rows
  db,                   \* storage.ts `db`: "null" or "open"
  embeddingCache,       \* gemini.ts `embeddingCache`: text -> vector
  cacheKeys,            \* gemini.ts `cacheKeys`: insertion order
  conversationHistory,  \* AgentSession.conversationHistory
  now,                  \* Date.now()
  nextId,               \* the next randomUUID() that reaches a row
  pc,                   \* where the call in flight is suspended
  op,                   \* the parameters and locals of the current or last call
  result,               \* the Result of the last finished call
  calls,                \* collaborator calls made by the current or last call
  persisted             \* history: ids of the memories stored before this process started

vars == <<database, db, embeddingCache, cacheKeys, conversationHistory, now,
          nextId, pc, op, result, calls, persisted>>

DayMs == 24 * 60 * 60 * 1000
MaxTicks == 1

(***************************************************************************)
(* Database files the process can start on: a new file, and files written  *)
(* by earlier runs (some by a deployment whose embeddings had another      *)
(* dimension, one holding an all-zero embedding).                          *)
(***************************************************************************)
memoryRow(id, content, embedding, at) ==
  [id |-> id, content |-> content, embedding |-> embedding, createdAt |-> at,
   lastAccessed |-> at, accessCount |-> 0]

chunkRow(id, content, embedding) ==
  [id |-> id, summaryId |-> 1, content |-> content, embedding |-> embedding,
   startLine |-> 0, endLine |-> 0, charStart |-> 0,
   charEnd |-> Len(content), createdAt |-> 0]

summaryRow == [id |-> 1, memoryCount |-> 2, createdAt |-> 0]

NewFile == [EmptyTables EXCEPT !.created = FALSE]

ChunksFile ==
  [EmptyTables EXCEPT
     !.summaries = <<summaryRow>>,
     !.summary_chunks = <<chunkRow(1, ContentPlanner, Embed(ContentPlanner)),
                          chunkRow(2, ContentTime, Embed(ContentTime))>>]

ZeroVectorFile ==
  [EmptyTables EXCEPT !.memories = <<memoryRow(0, ContentTime, <<0, 0, 0, 0>>, 0)>>]

OtherDimensionFile ==
  [EmptyTables EXCEPT !.memories = <<memoryRow(0, ContentName, <<6, 8>>, 0)>>]

OtherDimensionChunkFile ==
  [EmptyTables EXCEPT
     !.summaries = <<summaryRow>>,
     !.summary_chunks = <<chunkRow(1, ContentPlanner, <<6, 8>>)>>]

InitialFiles ==
  {NewFile, ChunksFile, ZeroVectorFile, OtherDimensionFile, OtherDimensionChunkFile}

OptionChoices ==
  {NoOptions}
    \cup {[memoryTopK |-> k, minRelevance |-> (6 * Scale) \div 10] : k \in 0..MaxTopK}
    \cup {[summaryTopK |-> MaxTopK, minRelevance |-> (6 * Scale) \div 10]}
    \cup {[memoryTopK |-> MaxTopK, minRelevance |-> Scale \div 2]}

NoOp ==
  [name |-> "none", query |-> <<>>, focusedQuery |-> <<>>, memoryTopK |-> 0,
   summaryTopK |-> 0, minRelevance |-> 0, embedUp |-> FALSE, cacheHit |-> FALSE,
   queryEmbedding |-> <<>>, memoriesOutcome |-> "none", allMemories |-> <<>>,
   chunksOutcome |-> "none", allChunks |-> <<>>, hybridResults |-> <<>>,
   chunkResults |-> <<>>, historyBefore |-> <<>>, contextResult |-> NoResult,
   assistantResponse |-> <<>>, toSave |-> <<>>, extracted |-> 0,
   input |-> <<>>, inputAfter |-> <<>>, output |-> <<>>, prompt |-> <<>>]

NoCalls ==
  [embed |-> 0, memories |-> 0, chunks |-> 0, findTopSimilar |-> 0,
   generateText |-> 0, saveMemory |-> 0]

idsOf(file) == {file.memories[i].id : i \in 1..Len(file.memories)}

Init ==
  /\ database \in InitialFiles
  /\ db = "null"
  /\ embeddingCache = EmptyCache
  /\ cacheKeys = <<>>
  /\ conversationHistory = <<>>
  /\ now = 0
  /\ nextId = 1
  /\ pc = "idle"
  /\ op = NoOp
  /\ result = NoResult
  /\ calls = NoCalls
  /\ persisted = idsOf(database)

\* what searchMemories makes of the context (retrieval.ts lines 314-318)
returned(name, r) ==
  IF name = "searchMemories" /\ r.ok
  THEN [r EXCEPT !.summaryChunks = <<>>, !.query = <<>>, !.queryEmbedding = <<>>]
  ELSE r

\* Variant: processInput goes on with an empty context when retrieval fails.
afterRetrieveLenient(name, r) ==
  IF name = "processInput" THEN "generateText" ELSE "idle"

\* processInput, agent.ts lines 91-97: a failed retrieval ends the call, a
\* successful one goes on to the prompt and the text generator
afterRetrieve(name, r) ==
  IF name = "processInput" /\ r.ok THEN "generateText" ELSE "idle"

\* the Result the call has produced once the retrieval is over
resultAfter(name, r) ==
  IF afterRetrieve(name, r) = "idle" THEN returned(name, r) ELSE NoResult

\* processInput's local contextResult
contextAfter(name, r) == IF name = "processInput" THEN r ELSE NoResult

(***************************************************************************)
(* retrieveContext(query, options), lines 97-120: the defaults, the query  *)
(* preprocessing and the embedding of the focused query.                   *)
(***************************************************************************)
beginRetrieve(name, query, options, up) ==
  LET memoryTopK == optionOr(options, "memoryTopK", topK)
      summaryTopK == optionOr(options, "summaryTopK", (memoryTopK + 1) \div 2)
      minRelevance == optionOr(options, "minRelevance", relevanceThreshold)
      focusedQuery == focusedQueryOf[query]
      e == generateEmbedding(embeddingCache, cacheKeys, focusedQuery, up)
  IN /\ pc = "idle"
     /\ op' = [NoOp EXCEPT !.name = name, !.query = query,
                           !.focusedQuery = focusedQuery,
                           !.memoryTopK = memoryTopK, !.summaryTopK = summaryTopK,
                           !.minRelevance = minRelevance, !.embedUp = up,
                           !.cacheHit = (focusedQuery \in DOMAIN embeddingCache),
                           !.queryEmbedding = e.value,
                           !.historyBefore = IF name = "processInput"
                                             THEN conversationHistory ELSE <<>>,
                           !.contextResult = IF name = "processInput" /\ ~e.ok
                                             THEN failure("EmbeddingFailed")
                                             ELSE NoResult]
     /\ embeddingCache' = e.cache
     /\ cacheKeys' = e.keys
     /\ calls' = [NoCalls EXCEPT !.embed = e.requests]
     /\ IF e.ok
        THEN pc' = "loadMemories" /\ result' = NoResult
        ELSE /\ pc' = afterRetrieve(name, failure("EmbeddingFailed"))
             /\ result' = resultAfter(name, failure("EmbeddingFailed"))
     /\ UNCHANGED <<database, db, conversationHistory, now, nextId, persisted>>

retrieveContextOf(queries, choices) ==
  \E query \in queries, options \in choices, up \in BOOLEAN :
    beginRetrieve("retrieveContext", query, options, up)

RetrieveContext == retrieveContextOf(Queries, OptionChoices)

\* searchMemories(query, topK): retrieveContext with summaryTopK 0
SearchMemories ==
  \E query \in Queries, k \in 0..MaxTopK, up \in BOOLEAN :
    beginRetrieve("searchMemories", query, [memoryTopK |-> k, summaryTopK |-> 0], up)

\* lines 126-132: getAllMemories()
LoadMemories ==
  /\ pc = "loadMemories"
  /\ \E outcome \in StorageOutcomes(db) :
       /\ db' = handleAfter(db, outcome)
       /\ database' = fileAfter(db, database, outcome)
       /\ calls' = [calls EXCEPT !.memories = @ + 1]
       /\ IF outcome = "ok"
          THEN /\ op' = [op EXCEPT !.memoriesOutcome = outcome,
                                   !.allMemories = getAllMemories(database')]
               /\ pc' = "loadChunks"
               /\ result' = result
          ELSE /\ op' = [op EXCEPT !.memoriesOutcome = outcome,
                                   !.contextResult =
                                      contextAfter(op.name, failure("StorageFailed"))]
               /\ pc' = afterRetrieve(op.name, failure("StorageFailed"))
               /\ result' = resultAfter(op.name, failure("StorageFailed"))
  /\ UNCHANGED <<embeddingCache, cacheKeys, conversationHistory, now, nextId, persisted>>

\* lines 134-261: getAllSummaryChunks(), then the searches, scoring, filter
LoadChunks ==
  /\ pc = "loadChunks"
  /\ \E outcome \in StorageOutcomes(db) :
       /\ db' = handleAfter(db, outcome)
       /\ database' = fileAfter(db, database, outcome)
       /\ IF outcome = "ok"
          THEN LET allChunks == getAllSummaryChunks(database')
                   r == rankAndFilter(op.query, op.queryEmbedding, op.allMemories,
                                      allChunks, op.memoryTopK, op.summaryTopK,
                                      op.minRelevance)
               IN /\ op' = [op EXCEPT !.chunksOutcome = outcome,
                                      !.allChunks = allChunks,
                                      !.hybridResults = r.hybridResults,
                                      !.chunkResults = r.chunkResults,
                                      !.contextResult = contextAfter(op.name, r.result)]
                  /\ calls' = [calls EXCEPT !.chunks = @ + 1,
                                            !.findTopSimilar = r.searches]
                  /\ pc' = afterRetrieve(op.name, r.result)
                  /\ result' = resultAfter(op.name, r.result)
          ELSE /\ op' = [op EXCEPT !.chunksOutcome = outcome,
                                   !.contextResult =
                                      contextAfter(op.name, failure("StorageFailed"))]
               /\ calls' = [calls EXCEPT !.chunks = @ + 1]
               /\ pc' = afterRetrieve(op.name, failure("StorageFailed"))
               /\ result' = resultAfter(op.name, failure("StorageFailed"))
  /\ UNCHANGED <<embeddingCache, cacheKeys, conversationHistory, now, nextId, persisted>>

\* getRecentMemories(daysBack)
GetRecentMemories ==
  /\ pc = "idle"
  /\ \E daysBack \in {0, 1}, outcome \in StorageOutcomes(db) :
       LET cutoffTime == now - daysBack * DayMs
       IN /\ db' = handleAfter(db, outcome)
          /\ database' = fileAfter(db, database, outcome)
          /\ op' = [NoOp EXCEPT !.name = "getRecentMemories"]
          /\ calls' = [NoCalls EXCEPT !.memories = 1]
          /\ result' =
               IF outcome = "ok"
               THEN [NoResult EXCEPT
                       !.done = TRUE, !.ok = TRUE,
                       !.recent = SelectSeq(getAllMemories(database'),
                                            LAMBDA m : m.createdAt >= cutoffTime)]
               ELSE failure("StorageFailed")
  /\ UNCHANGED <<embeddingCache, cacheKeys, conversationHistory, now, nextId, pc,
                 persisted>>

\* saveMemory(candidate) of core/memory.ts on the cache, the handle and the
\* file; up and outcome: how the embedding request and the INSERT end
saveMemory(cache, keys, handle, file, id, content, at, up, outcome) ==
  LET e == generateEmbedding(cache, keys, content, up)
      memory == memoryRow(id, content, e.value, at)
  IN IF ~e.ok
     THEN [ok |-> FALSE, error |-> "EmbeddingFailed", cache |-> e.cache,
           keys |-> e.keys, handle |-> handle, file |-> file, saved |-> <<>>]
     ELSE IF outcome = "ok"
     THEN [ok |-> TRUE, error |-> "none", cache |-> e.cache, keys |-> e.keys,
           handle |-> "open",
           file |-> [getDatabase(handle, file) EXCEPT !.memories = Append(@, memory)],
           saved |-> <<memory>>]
     ELSE [ok |-> FALSE, error |-> "StorageFailed", cache |-> e.cache,
           keys |-> e.keys, handle |-> handleAfter(handle, outcome),
           file |-> fileAfter(handle, file, outcome), saved |-> <<>>]

\* a caller saves one memory
SaveMemory ==
  /\ pc = "idle"
  /\ Len(database.memories) < MaxMemories
  /\ \E content \in CandidateContents, up \in BOOLEAN, outcome \in StorageOutcomes(db) :
       LET s == saveMemory(embeddingCache, cacheKeys, db, database, nextId,
                           content, now, up, outcome)
       IN /\ embeddingCache' = s.cache
          /\ cacheKeys' = s.keys
          /\ db' = s.handle
          /\ database' = s.file
          /\ nextId' = nextId + Len(s.saved)
          /\ op' = [NoOp EXCEPT !.name = "saveMemory", !.query = content, !.embedUp = up]
          /\ calls' = [NoCalls EXCEPT !.saveMemory = 1]
          /\ result' = IF s.ok
                       THEN [NoResult EXCEPT !.done = TRUE, !.ok = TRUE,
                                             !.recent = s.saved]
                       ELSE failure(s.error)
  /\ UNCHANGED <<conversationHistory, now, pc, persisted>>

\* clearEmbeddingCache()
ClearEmbeddingCache ==
  /\ pc = "idle"
  /\ embeddingCache' = EmptyCache
  /\ cacheKeys' = <<>>
  /\ op' = [NoOp EXCEPT !.name = "clearEmbeddingCache"]
  /\ result' = NoResult
  /\ calls' = NoCalls
  /\ UNCHANGED <<database, db, conversationHistory, now, nextId, pc, persisted>>

\* The process exits and a new one starts on the same database file: the
\* module state (cache, storage handle, session) starts over.
Restart ==
  /\ pc = "idle"
  /\ db' = "null"
  /\ embeddingCache' = EmptyCache
  /\ cacheKeys' = <<>>
  /\ conversationHistory' = <<>>
  /\ op' = NoOp
  /\ result' = NoResult
  /\ calls' = NoCalls
  /\ persisted' = idsOf(database)
  /\ UNCHANGED <<database, now, nextId, pc>>

\* time passes
Tick ==
  /\ pc = "idle"
  /\ now < MaxTicks * DayMs
  /\ now' = now + DayMs
  /\ UNCHANGED <<database, db, embeddingCache, cacheKeys, conversationHistory,
                 nextId, pc, op, result, calls, persisted>>

Next ==
  \/ RetrieveContext
  \/ SearchMemories
  \/ LoadMemories
  \/ LoadChunks
  \/ GetRecentMemories
  \/ SaveMemory
  \/ ClearEmbeddingCache

Spec == Init /\ [][Next]_vars

(***************************************************************************)
(* The store across process restarts.                                      *)
(***************************************************************************)
InitRestart ==
  /\ Init
  /\ database = NewFile

RetrieveAfterRestart ==
  retrieveContextOf({QueryName, QueryPizza},
                    {NoOptions, [memoryTopK |-> 1, minRelevance |-> (6 * Scale) \div 10]})

NextRestart ==
  \/ SaveMemory
  \/ Restart
  \/ RetrieveAfterRestart
  \/ LoadMemories
  \/ LoadChunks
  \/ Tick

SpecRestart == InitRestart /\ [][NextRestart]_vars

(***************************************************************************)
(* The embedding cache on its own: generateEmbedding(text) called directly, *)
(* one call at a time, on any text, the empty string included.             *)
(***************************************************************************)
CacheTexts == Queries \cup Contents \cup {<<>>}

\* generateEmbedding(text), a call from outside the retrieval pipeline
GenerateEmbedding ==
  /\ pc = "idle"
  /\ \E text \in CacheTexts, up \in BOOLEAN :
       LET e == generateEmbedding(embeddingCache, cacheKeys, text, up)
       IN /\ embeddingCache' = e.cache
          /\ cacheKeys' = e.keys
          /\ op' = [NoOp EXCEPT !.name = "generateEmbedding", !.query = text,
                                !.embedUp = up,
                                !.cacheHit = (text \in DOMAIN embeddingCache),
                                !.queryEmbedding = e.value]
          /\ calls' = [NoCalls EXCEPT !.embed = e.requests]
          /\ result' = IF e.ok
                       THEN [NoResult EXCEPT !.done = TRUE, !.ok = TRUE,
                                             !.queryEmbedding = e.value]
                       ELSE failure("EmbeddingFailed")
  /\ UNCHANGED <<database, db, conversationHistory, now, nextId, pc, persisted>>

InitCache ==
  /\ Init
  /\ database = NewFile

NextCache ==
  \/ GenerateEmbedding
  \/ ClearEmbeddingCache

SpecCache == InitCache /\ [][NextCache]_vars

(***************************************************************************)
(* generateEmbeddings(texts): the calls of one batch are started together  *)
(* (Promise.all over batch.map), each looks the cache up when it starts    *)
(* and adds to it when its request is answered, in any order.  The process *)
(* of this specification is configured with a cache of two entries.        *)
(***************************************************************************)
ConcurrentCacheSize == 2
MaxBatch == 2
\* batches are started while the key list is no longer than this
MaxCacheKeys == 4

\* the result of one generateEmbedding call of the batch
embeddingResult(done, ok, value) == [done |-> done, ok |-> ok, value |-> value]

\* generateEmbeddings(texts), lines 706-721: every call of the batch runs to
\* its await; op.inputAfter holds the calls whose request is in flight
GenerateEmbeddings ==
  /\ pc = "idle"
  /\ Len(cacheKeys) < MaxCacheKeys
  /\ \E texts \in UNION {[1..n -> {QueryHi, ContentName, ContentTime, QueryPizza}] : n \in 1..MaxBatch} :
       /\ op' = [NoOp EXCEPT
                   !.name = "generateEmbeddings",
                   !.input = texts,
                   !.inputAfter = {i \in 1..Len(texts) : texts[i] \notin DOMAIN embeddingCache},
                   !.output = [i \in 1..Len(texts) |->
                                 IF texts[i] \in DOMAIN embeddingCache
                                 THEN embeddingResult(TRUE, TRUE, embeddingCache[texts[i]])
                                 ELSE embeddingResult(FALSE, FALSE, <<>>)]]
       /\ calls' = [NoCalls EXCEPT
                      !.embed = Cardinality({i \in 1..Len(texts) :
                                               texts[i] \notin DOMAIN embeddingCache})]
       /\ IF \A i \in 1..Len(texts) : texts[i] \in DOMAIN embeddingCache
          THEN /\ pc' = "idle"
               /\ result' = [NoResult EXCEPT !.done = TRUE, !.ok = TRUE]
          ELSE /\ pc' = "embedding"
               /\ result' = NoResult
  /\ UNCHANGED <<database, db, embeddingCache, cacheKeys, conversationHistory, now,
                 nextId, persisted>>

\* model.embedContent(text) of one call in flight is answered or fails, lines
\* 686-700; after the last one generateEmbeddings returns, lines 723-732
EmbeddingAnswered ==
  /\ pc = "embedding"
  /\ \E i \in op.inputAfter, up \in BOOLEAN :
       /\ embeddingCache' =
            IF up THEN addToCacheOf(embeddingCache, cacheKeys, op.input[i],
                                    Embed(op.input[i]), ConcurrentCacheSize).cache
            ELSE embeddingCache
       /\ cacheKeys' =
            IF up THEN addToCacheOf(embeddingCache, cacheKeys, op.input[i],
                                    Embed(op.input[i]), ConcurrentCacheSize).keys
            ELSE cacheKeys
       /\ op' = [op EXCEPT
                   !.inputAfter = @ \ {i},
                   !.output[i] = IF up THEN embeddingResult(TRUE, TRUE, Embed(op.input[i]))
                                 ELSE embeddingResult(TRUE, FALSE, <<>>)]
       /\ IF op.inputAfter = {i}
          THEN /\ pc' = "idle"
               /\ result' = IF up /\ \A j \in DOMAIN op.output : j # i => op.output[j].ok
                            THEN [NoResult EXCEPT !.done = TRUE, !.ok = TRUE]
                            ELSE failure("EmbeddingFailed")
          ELSE /\ pc' = "embedding"
               /\ result' = result
  /\ UNCHANGED <<database, db, conversationHistory, now, nextId, calls, persisted>>

NextBatch ==
  \/ GenerateEmbeddings
  \/ EmbeddingAnswered
  \/ ClearEmbeddingCache

SpecBatch == InitCache /\ [][NextBatch]_vars

(***************************************************************************)
(* utils/vector.ts called on its own: findTopSimilar on any query, any     *)
(* candidate list and any top-K that is a count.                           *)
(***************************************************************************)
MaxCandidates == 3

VectorChoices ==
  {<<10, 0, 0, 0>>, <<8, 0, 0, 6>>, <<0, 0, 0, 0>>, <<-10, 0, 0, 0>>, <<6, 8>>}

QueryVectors == {<<10, 0, 0, 0>>, <<0, 0, 0, 0>>}

\* candidate lists: the id of a candidate is its position in the list
CandidateVectors ==
  UNION {[1..n -> VectorChoices] : n \in 0..MaxCandidates}

candidatesOf(vs) == [i \in 1..Len(vs) |-> [id |-> i, vector |-> vs[i], data |-> i]]

\* findTopSimilar(query, vectors, topK); the function keeps no state, so one
\* call is made in a behaviour
FindTopSimilar ==
  /\ pc = "idle"
  /\ op = NoOp
  /\ \E query \in QueryVectors, vs \in CandidateVectors, k \in 0..(MaxTopK + 1) :
       LET vectors == candidatesOf(vs)
           thrown == findTopSimilarThrows(query, vectors)
       IN op' = [NoOp EXCEPT
                   !.name = "findTopSimilar",
                   !.input = [query |-> query, vectors |-> vectors, topK |-> k],
                   !.inputAfter =
                      [query |-> query,
                       vectors |-> vectorsAfterFindTopSimilar(query, vectors, k),
                       topK |-> k],
                   !.output =
                      [thrown |-> thrown,
                       results |-> IF thrown THEN <<>>
                                   ELSE findTopSimilar(query, vectors, k)]]
  /\ result' = NoResult
  /\ calls' = [NoCalls EXCEPT !.findTopSimilar = 1]
  /\ UNCHANGED <<database, db, embeddingCache, cacheKeys, conversationHistory,
                 now, nextId, pc, persisted>>

NextVector == FindTopSimilar

SpecVector == InitCache /\ [][NextVector]_vars

(***************************************************************************)
(* utils/chunking.ts called on its own: chunkText on any text of letters   *)
(* and newlines and any options with maxChars >= 1 and overlapChars >= 0.  *)
(***************************************************************************)
MaxTextLen == 5
MaxChunkChars == 5
MaxOverlapChars == 2

ChunkTexts == UNION {[1..n -> {"a", NL}] : n \in 0..MaxTextLen}

ChunkOptionChoices ==
  [maxChars : 1..MaxChunkChars, overlapChars : 0..MaxOverlapChars]

\* chunkText(text, options); the function keeps no state, so one call is
\* made in a behaviour
ChunkText ==
  /\ pc = "idle"
  /\ op = NoOp
  /\ \E text \in ChunkTexts, options \in ChunkOptionChoices :
       op' = [NoOp EXCEPT !.name = "chunkText",
                          !.input = [text |-> text, options |-> options],
                          !.inputAfter = [text |-> text, options |-> options],
                          !.output = chunkText(text, options)]
  /\ result' = NoResult
  /\ calls' = NoCalls
  /\ UNCHANGED <<database, db, embeddingCache, cacheKeys, conversationHistory,
                 now, nextId, pc, persisted>>

MaxSummaries == 1

\* "aa" / "a" / "aaa" on three lines, one line "aaaa", and the empty text
SummaryContents ==
  {<<"a","a",NL,"a",NL,"a","a","a">>, <<"a","a","a","a">>, <<>>}

\* generateEmbedding(chunk.text) answered, after the calls made so far
embedNext(sofar, text) ==
  [cache |-> generateEmbedding(sofar.cache, sofar.keys, text, TRUE).cache,
   keys |-> generateEmbedding(sofar.cache, sofar.keys, text, TRUE).keys,
   values |-> Append(sofar.values,
                     generateEmbedding(sofar.cache, sofar.keys, text, TRUE).value)]

\* the cache and the embeddings after the first n chunks were embedded
RECURSIVE embedChunks(_, _, _, _)
embedChunks(cache, keys, chunks, n) ==
  IF n = 0 THEN [cache |-> cache, keys |-> keys, values |-> <<>>]
  ELSE embedNext(embedChunks(cache, keys, chunks, n - 1), chunks[n].text)

\* the row of the INSERT INTO summary_chunks of lines 340-356
summaryChunkRow(id, summaryId, chunk, embedding, at) ==
  [id |-> id, summaryId |-> summaryId, content |-> chunk.text,
   embedding |-> embedding, startLine |-> chunk.startLine,
   endLine |-> chunk.endLine, charStart |-> chunk.charStart,
   charEnd |-> chunk.charEnd, createdAt |-> at]

\* Variant: every chunk is embedded before the first INSERT INTO summary_chunks.
saveSummaryChunksEmbeddingFirst(cache, keys, file, summaryId, chunks, at, stored, error) ==
  [ok |-> stored = Len(chunks),
   error |-> IF stored = Len(chunks) THEN "none" ELSE error,
   embedded |-> embedChunks(cache, keys, chunks,
                            IF stored < Len(chunks) /\ error = "StorageFailed"
                            THEN Len(chunks) ELSE stored),
   file |-> [file EXCEPT !.summary_chunks =
               @ \o [c \in 1..stored |->
                       summaryChunkRow(summaryId + c, summaryId, chunks[c],
                                       embedChunks(cache, keys, chunks, stored).values[c],
                                       at)]]]

\* Variant: a failure removes the summary row and the chunk rows written so far.
saveSummaryChunksRollingBack(cache, keys, file, summaryId, chunks, at, stored, error) ==
  [ok |-> stored = Len(chunks),
   error |-> IF stored = Len(chunks) THEN "none" ELSE error,
   embedded |-> embedChunks(cache, keys, chunks,
                            IF stored < Len(chunks) /\ error = "StorageFailed"
                            THEN stored + 1 ELSE stored),
   file |-> IF stored < Len(chunks)
            THEN [file EXCEPT !.summaries = SubSeq(@, 1, Len(@) - 1)]
            ELSE [file EXCEPT !.summary_chunks =
                    @ \o [c \in 1..stored |->
                            summaryChunkRow(summaryId + c, summaryId, chunks[c],
                                            embedChunks(cache, keys, chunks, stored).values[c],
                                            at)]]]

\* saveSummary, lines 324-370, after the summary row is stored: the first
\* `stored` chunks are embedded and inserted; the next one, if any, fails in
\* the embedding request or in the INSERT
saveSummaryChunks(cache, keys, file, summaryId, chunks, at, stored, error) ==
  [ok |-> stored = Len(chunks),
   error |-> IF stored = Len(chunks) THEN "none" ELSE error,
   embedded |-> embedChunks(cache, keys, chunks,
                            IF stored < Len(chunks) /\ error = "StorageFailed"
                            THEN stored + 1 ELSE stored),
   file |-> [file EXCEPT !.summary_chunks =
               @ \o [c \in 1..stored |->
                       summaryChunkRow(summaryId + c, summaryId, chunks[c],
                                       embedChunks(cache, keys, chunks, stored).values[c],
                                       at)]]]

\* saveSummary(summary, content)
SaveSummary ==
  /\ pc = "idle"
  /\ Len(database.summaries) < MaxSummaries
  /\ \E content \in SummaryContents, outcome \in StorageOutcomes(db) :
       /\ db' = handleAfter(db, outcome)
       /\ op' = [NoOp EXCEPT !.name = "saveSummary", !.query = content,
                             !.output = chunkText(content, DEFAULT_CHUNK_OPTIONS)]
       /\ IF outcome # "ok"
          THEN /\ database' = fileAfter(db, database, outcome)
               /\ result' = failure("StorageFailed")
               /\ calls' = NoCalls
               /\ UNCHANGED <<embeddingCache, cacheKeys, nextId>>
          ELSE \E stored \in 0..Len(chunkText(content, DEFAULT_CHUNK_OPTIONS)),
                  error \in {"EmbeddingFailed", "StorageFailed"} :
                 LET chunks == chunkText(content, DEFAULT_CHUNK_OPTIONS)
                     s == saveSummaryChunks(
                            embeddingCache, cacheKeys,
                            [getDatabase(db, database) EXCEPT
                               !.summaries = Append(@, [id |-> nextId,
                                                        memoryCount |-> 2,
                                                        createdAt |-> now])],
                            nextId, chunks, now, stored, error)
                 IN \* a request for a cached text cannot fail
                    /\ (stored < Len(chunks) /\ error = "EmbeddingFailed")
                         => chunks[stored + 1].text \notin DOMAIN s.embedded.cache
                    \* when every chunk is stored there is no error to choose
                    /\ (stored = Len(chunks)) => error = "StorageFailed"
                    /\ database' = s.file
                    /\ embeddingCache' = s.embedded.cache
                    /\ cacheKeys' = s.embedded.keys
                    /\ nextId' = nextId + 1 + stored
                    /\ calls' = [NoCalls EXCEPT !.embed = Len(s.embedded.values)]
                    /\ result' = IF s.ok
                                 THEN [NoResult EXCEPT !.done = TRUE, !.ok = TRUE]
                                 ELSE failure(s.error)
  /\ UNCHANGED <<conversationHistory, now, pc, persisted>>

NextChunk ==
  \/ ChunkText
  \/ SaveSummary

SpecChunk == InitCache /\ [][NextChunk]_vars

(***************************************************************************)
(* core/agent.ts: AgentSession and processInput.  The text generator gets   *)
(* the prompt and answers or fails.                                        *)
(***************************************************************************)
\* AgentSession.addTurn(role, content)
addTurn(history, role, content, at) ==
  LET pushed == Append(history, [role |-> role, content |-> content, timestamp |-> at])
  IN IF Len(pushed) > maxHistoryTurns
     THEN SubSeq(pushed, Len(pushed) - maxHistoryTurns + 1, Len(pushed))
     ELSE pushed

AgentInputs == {QueryName, QueryPizza}

\* the assistant's answer
Reply == <<"o", "k">>

\* What the extraction answer parses to: lists of MemoryCandidate
candidate(content, confidence) == [content |-> content, confidence |-> confidence]
CandidateLists ==
  { <<>>,
    <<candidate(ContentName, (9 * Scale) \div 10)>>,
    <<candidate(ContentPlanner, (5 * Scale) \div 10)>>,
    <<candidate(ContentName, (7 * Scale) \div 10),
      candidate(ContentPlanner, (8 * Scale) \div 10)>> }

\* Variant: the candidates of confidence above 0.7.
confidentAbove(memories) ==
  SelectSeq(memories, LAMBDA m : m.confidence > (7 * Scale) \div 10)

\* agent.ts line 239: the candidates of confidence 0.7 or more
confident(memories) ==
  SelectSeq(memories, LAMBDA m : m.confidence >= (7 * Scale) \div 10)

\* core/prompts.ts is not among the sources; the next definitions follow the
\* prompt budgeter of the specification: the prompt is the system
\* instructions, the formatted memories and chunks, the history and the user
\* input, a token is four characters, and truncation drops retrieved context
\* from the tail, then the oldest history turns, never the user input.
SystemInstructions == <<"S", "Y", "S">>

\* the token budget of the model's configuration (MAX_PROMPT_TOKENS)
maxPromptTokens == 4

buildPrompt(userMessage, retrievedContext, history) ==
  [system |-> SystemInstructions,
   memories |-> [i \in 1..Len(retrievedContext.memories) |->
                   retrievedContext.memories[i].memory.content],
   chunks |-> [i \in 1..Len(retrievedContext.summaryChunks) |->
                 retrievedContext.summaryChunks[i].chunk.content],
   history |-> [i \in 1..Len(history) |-> history[i].content],
   user |-> userMessage]

\* the characters of a list of texts
RECURSIVE totalLength(_)
totalLength(texts) ==
  IF texts = <<>> THEN 0 ELSE Len(Head(texts)) + totalLength(Tail(texts))

estimatePromptTokens(prompt) ==
  ceilDiv(Len(prompt.system) + totalLength(prompt.memories) + totalLength(prompt.chunks)
            + totalLength(prompt.history) + Len(prompt.user), 4)

isPromptTooLarge(prompt, maxTokens) == estimatePromptTokens(prompt) > maxTokens

RECURSIVE truncatePrompt(_, _)
truncatePrompt(prompt, maxTokens) ==
  IF ~isPromptTooLarge(prompt, maxTokens) THEN prompt
  ELSE IF prompt.chunks # <<>>
  THEN truncatePrompt([prompt EXCEPT !.chunks = SubSeq(@, 1, Len(@) - 1)], maxTokens)
  ELSE IF prompt.memories # <<>>
  THEN truncatePrompt([prompt EXCEPT !.memories = SubSeq(@, 1, Len(@) - 1)], maxTokens)
  ELSE IF prompt.history # <<>>
  THEN truncatePrompt([prompt EXCEPT !.history = Tail(@)], maxTokens)
  ELSE prompt

\* Variant: the prompt is handed on as it was built.
promptWithinUntruncated(prompt, maxTokens) == prompt

\* agent.ts lines 113-120: the prompt is truncated when it is too large
promptWithin(prompt, maxTokens) ==
  IF isPromptTooLarge(prompt, maxTokens)
  THEN truncatePrompt(prompt, maxTokens)
  ELSE prompt

\* processInput(userInput, session), lines 81-95: retrieveContext(userInput)
ProcessInput ==
  \E userInput \in AgentInputs, up \in BOOLEAN :
    beginRetrieve("processInput", userInput, NoOptions, up)

\* lines 104-141: the prompt, then generateText(prompt)
GenerateResponse ==
  /\ pc = "generateText"
  /\ calls' = [calls EXCEPT !.generateText = @ + 1]
  /\ \E ok \in BOOLEAN :
       IF ok
       THEN /\ op' = [op EXCEPT
                        !.assistantResponse = Reply,
                        !.prompt = promptWithin(
                                     buildPrompt(op.query, op.contextResult,
                                                 conversationHistory),
                                     maxPromptTokens)]
            /\ pc' = "extractMemories"
            /\ result' = result
       ELSE /\ op' = [op EXCEPT
                        !.prompt = promptWithin(
                                     buildPrompt(op.query, op.contextResult,
                                                 conversationHistory),
                                     maxPromptTokens)]
            /\ pc' = "idle"
            /\ result' = failure("GenerationFailed")
  /\ UNCHANGED <<database, db, embeddingCache, cacheKeys, conversationHistory, now,
                 nextId, persisted>>

\* extractMemories, lines 195-240: the extraction request, the parse, the
\* confidence filter
ExtractMemories ==
  /\ pc = "extractMemories"
  /\ calls' = [calls EXCEPT !.generateText = @ + 1]
  /\ \E outcome \in {"ok", "fails", "unparsable"}, memories \in CandidateLists :
       LET filtered == IF outcome = "ok" THEN confident(memories) ELSE <<>>
       IN /\ Len(database.memories) + Len(filtered) <= MaxMemories
          \* only an answer that parses has candidates
          /\ outcome # "ok" => memories = <<>>
          /\ op' = [op EXCEPT !.toSave = filtered, !.extracted = Len(filtered),
                              !.input = [outcome |-> outcome, memories |-> memories]]
          /\ pc' = IF filtered = <<>> THEN "finish" ELSE "saveExtracted"
  /\ UNCHANGED <<database, db, embeddingCache, cacheKeys, conversationHistory, now,
                 nextId, result, persisted>>

\* extractMemories, lines 242-250: one turn of the loop, saveMemory(memory)
SaveExtracted ==
  /\ pc = "saveExtracted"
  /\ \E up \in BOOLEAN, outcome \in StorageOutcomes(db) :
       LET s == saveMemory(embeddingCache, cacheKeys, db, database, nextId,
                           Head(op.toSave).content, now, up, outcome)
       IN /\ embeddingCache' = s.cache
          /\ cacheKeys' = s.keys
          /\ db' = s.handle
          /\ database' = s.file
          /\ nextId' = nextId + Len(s.saved)
  /\ op' = [op EXCEPT !.toSave = Tail(@)]
  /\ calls' = [calls EXCEPT !.saveMemory = @ + 1]
  /\ pc' = IF Tail(op.toSave) = <<>> THEN "finish" ELSE "saveExtracted"
  /\ UNCHANGED <<conversationHistory, now, result, persisted>>

\* lines 154-179: the two turns, countMemories(), the AgentResponse
FinishInput ==
  /\ pc = "finish"
  /\ conversationHistory' =
       addTurn(addTurn(conversationHistory, "user", op.query, now),
               "assistant", op.assistantResponse, now)
  /\ \E outcome \in StorageOutcomes(db) :
       /\ db' = handleAfter(db, outcome)
       /\ database' = fileAfter(db, database, outcome)
  /\ result' = [NoResult EXCEPT
                  !.done = TRUE, !.ok = TRUE,
                  !.agent = [message |-> op.assistantResponse,
                             memoriesExtracted |-> op.extracted,
                             memoriesFound |-> Len(op.contextResult.memories),
                             summaryChunksFound |-> Len(op.contextResult.summaryChunks)]]
  /\ pc' = "idle"
  /\ UNCHANGED <<embeddingCache, cacheKeys, now, nextId, op, calls, persisted>>

\* cli.ts: /clear
ClearSession ==
  /\ pc = "idle"
  /\ conversationHistory' = <<>>
  /\ op' = [NoOp EXCEPT !.name = "clear"]
  /\ result' = NoResult
  /\ calls' = NoCalls
  /\ UNCHANGED <<database, db, embeddingCache, cacheKeys, now, nextId, pc, persisted>>

InitAgent ==
  /\ Init
  /\ database \in {NewFile, ChunksFile}

NextAgent ==
  \/ ProcessInput
  \/ LoadMemories
  \/ LoadChunks
  \/ GenerateResponse
  \/ ExtractMemories
  \/ SaveExtracted
  \/ FinishInput
  \/ ClearSession

SpecAgent == InitAgent /\ [][NextAgent]_vars

(***************************************************************************)
(* The utilities called on their own: calculateKeywordScore,               *)
(* calculateHybridScore, preprocessQuery, and an AgentSession of any        *)
(* maxHistoryTurns.  The functions keep no state and a session is used by   *)
(* one caller, so one call, or one sequence of calls on a new session, is   *)
(* made in a behaviour.                                                     *)
(***************************************************************************)
\* the arguments the calls are made with
UtilInputs ==
  [keywords |-> {<<"n","a","m","e">>, <<"s","a","m">>, <<"p","i","z","z","a">>},
   documents |-> Contents \cup {<<"m","y"," ","n","a","m","e","s">>,
                                <<"n","a","m","e"," ","s","a","m">>,
                                <<"N","a","m","e",":"," ","S","a","m">>,
                                <<>>},
   scores |-> {0, Scale \div 2, (64 * Scale) \div 100, Scale},
   weights |-> {0, (7 * Scale) \div 10, (8 * Scale) \div 10, Scale},
   heads |-> {W.do \o SP \o W.you \o SP \o W.have,
              W.do \o SP \o W.you \o SP \o W.know,
              W.do \o SP \o W.you \o SP \o W.remember,
              W.do \o SP \o <<"I">> \o SP \o <<"l","o","v","e">>,
              W.what \o SP \o W.is,
              W.what \o <<"'", "s">>,
              W.where \o SP \o W.is,
              W.when \o SP \o W.is,
              W.please \o SP \o W.do \o SP \o W.you \o SP \o W.know},
   subjects |-> {<<"m","y"," ","n","a","m","e">>, <<"s","a","m">>},
   queries |-> Queries
                 \cup {W.what \o SP \o W.is \o SP \o <<"s","a","m","?"," ">>
                         \o W.where \o SP \o W.is \o SP \o <<"i","t","?">>}]

\* calculateKeywordScore(queryKeywords, documentText)
CalculateKeywordScore ==
  /\ pc = "idle"
  /\ op = NoOp
  /\ \E queryKeywords \in UNION {[1..n -> UtilInputs.keywords] : n \in 0..2},
        documentText \in UtilInputs.documents :
       op' = [NoOp EXCEPT
                !.name = "calculateKeywordScore",
                !.input = [queryKeywords |-> queryKeywords,
                           documentText |-> documentText],
                !.inputAfter = [queryKeywords |-> queryKeywords,
                                documentText |-> documentText],
                !.output = calculateKeywordScore(queryKeywords, documentText)]
  /\ result' = NoResult
  /\ calls' = NoCalls
  /\ UNCHANGED <<database, db, embeddingCache, cacheKeys, conversationHistory,
                 now, nextId, pc, persisted>>

\* Variant: the weight of a call without vectorWeight is 0.8.
vectorWeightOfEightTenths(args) ==
  IF Len(args) >= 3 THEN args[3] ELSE (8 * Scale) \div 10

\* keywords.ts line 218, `vectorWeight: number = 0.7`: the third argument, or
\* the default when the call has two
vectorWeightOf(args) ==
  IF Len(args) >= 3 THEN args[3] ELSE (7 * Scale) \div 10

\* calculateHybridScore(vectorSimilarity, keywordScore[, vectorWeight])
CalculateHybridScore ==
  /\ pc = "idle"
  /\ op = NoOp
  /\ \E args \in (UtilInputs.scores \X UtilInputs.scores)
                   \cup (UtilInputs.scores \X UtilInputs.scores \X UtilInputs.weights) :
       op' = [NoOp EXCEPT
                !.name = "calculateHybridScore",
                !.input = args,
                !.inputAfter = args,
                !.output = calculateHybridScore(args[1], args[2], vectorWeightOf(args))]
  /\ result' = NoResult
  /\ calls' = NoCalls
  /\ UNCHANGED <<database, db, embeddingCache, cacheKeys, conversationHistory,
                 now, nextId, pc, persisted>>

\* preprocessQuery(query), on questions "<head> <subject>?" and other queries
PreprocessQuery ==
  /\ pc = "idle"
  /\ op = NoOp
  /\ \E query \in UtilInputs.queries
                    \cup {h \o SP \o x \o <<"?">> :
                            h \in UtilInputs.heads, x \in UtilInputs.subjects} :
       op' = [NoOp EXCEPT !.name = "preprocessQuery",
                          !.input = query,
                          !.inputAfter = query,
                          !.output = preprocessQuery(query)]
  /\ result' = NoResult
  /\ calls' = NoCalls
  /\ UNCHANGED <<database, db, embeddingCache, cacheKeys, conversationHistory,
                 now, nextId, pc, persisted>>

\* the largest maxHistoryTurns and the most calls made on one session
MaxSessionTurns == 2
MaxSessionCalls == 4

\* AgentSession.addTurn(role, content) on a session constructed with max:
\* slice(-max) keeps the last max turns, and slice(-0) keeps them all
addTurnTo(history, max, role, content, at) ==
  IF Len(history) + 1 > max
  THEN sliceLast(Append(history, [role |-> role, content |-> content, timestamp |-> at]),
                 max)
  ELSE Append(history, [role |-> role, content |-> content, timestamp |-> at])

\* conversationHistory after the first n calls of cs on a new AgentSession(max);
\* a call is clear() or addTurn(role, content), made at time n
RECURSIVE sessionAfter(_, _, _)
sessionAfter(max, cs, n) ==
  IF n = 0 THEN <<>>
  ELSE IF cs[n] = "clear" THEN <<>>
  ELSE addTurnTo(sessionAfter(max, cs, n - 1), max, cs[n], Reply, n)

\* Variant: getHistory returns the session's own list.
getHistoryShared(history) == [turns |-> history, shared |-> TRUE]

\* AgentSession.getHistory(): a new list of the same turns
getHistory(history) == [turns |-> history, shared |-> FALSE]

\* new AgentSession(max), a sequence of addTurn and clear calls, getHistory(),
\* a push on the list it returned, and getHistory() again
AgentSessionCalls ==
  /\ pc = "idle"
  /\ op = NoOp
  /\ \E max \in 0..MaxSessionTurns,
        cs \in UNION {[1..n -> {"user", "assistant", "clear"}] : n \in 0..MaxSessionCalls} :
       op' = [NoOp EXCEPT
                !.name = "AgentSession",
                !.input = [maxHistoryTurns |-> max, calls |-> cs],
                !.inputAfter = [maxHistoryTurns |-> max, calls |-> cs],
                !.output =
                   [history |-> getHistory(sessionAfter(max, cs, Len(cs))).turns,
                    historyAfterPush |->
                      IF getHistory(sessionAfter(max, cs, Len(cs))).shared
                      THEN Append(sessionAfter(max, cs, Len(cs)),
                                  [role |-> "user", content |-> Reply, timestamp |-> 0])
                      ELSE getHistory(sessionAfter(max, cs, Len(cs))).turns]]
  /\ result' = NoResult
  /\ calls' = NoCalls
  /\ UNCHANGED <<database, db, embeddingCache, cacheKeys, conversationHistory,
                 now, nextId, pc, persisted>>

NextUtils ==
  \/ CalculateKeywordScore
  \/ CalculateHybridScore
  \/ PreprocessQuery
  \/ AgentSessionCalls

SpecUtils == InitCache /\ [][NextUtils]_vars

(***************************************************************************)
(* Properties.                                                             *)
(***************************************************************************)
RetrievalNames == {"retrieveContext", "searchMemories"}

\* the last call was one of `names` and has returned
Finished(names) == pc = "idle" /\ op.name \in names /\ result.done

\* cosine similarity of a stored row to the query embedding of the call
simOf(row) == cosineSimilarity(op.queryEmbedding, row.embedding)

\* keyword score of a stored row for the raw query of the call
keywordOf(row) == keywordScoreOf[op.query][row.content]

\* the position of rows[i] when rows are ranked by descending vector
\* similarity, rows of equal similarity in the order they were loaded
rankIn(rows, i) ==
  1 + Cardinality({j \in 1..Len(rows) :
                     \/ simOf(rows[j]) > simOf(rows[i])
                     \/ (simOf(rows[j]) = simOf(rows[i]) /\ j < i)})

\* the adaptive rule in the words of the specification
adaptive(v, k) == IF 10 * v >= 7 * Scale THEN v ELSE (8 * v + 2 * k) \div 10

expectedScore(row) == adaptive(simOf(row), keywordOf(row))

returnedMemories == {result.memories[i].memory : i \in DOMAIN result.memories}
returnedChunks == {result.summaryChunks[i].chunk : i \in DOMAIN result.summaryChunks}

C2_TopKPreFilter ==
  (Finished(RetrievalNames) /\ result.ok) =>
    /\ Len(result.memories) <= op.memoryTopK
    /\ Len(result.summaryChunks) <= op.summaryTopK
    /\ \A i \in DOMAIN op.allMemories :
         op.allMemories[i] \in returnedMemories
           => rankIn(op.allMemories, i) <= op.memoryTopK
    /\ \A i \in DOMAIN op.allChunks :
         op.allChunks[i] \in returnedChunks
           => rankIn(op.allChunks, i) <= op.summaryTopK

\* a memory outside the top K is not returned although its hybrid score passes
\* the threshold and exceeds that of the memory inside the top K
C2_Witness ==
  /\ Finished({"retrieveContext"}) /\ result.ok
  /\ op.memoryTopK = 1
  /\ \E i, j \in DOMAIN op.allMemories :
       /\ rankIn(op.allMemories, i) = 1
       /\ rankIn(op.allMemories, j) = 2
       /\ expectedScore(op.allMemories[j]) >= op.minRelevance
       /\ expectedScore(op.allMemories[j]) > expectedScore(op.allMemories[i])
       /\ op.allMemories[j] \notin returnedMemories

mismatched(rows) ==
  {i \in DOMAIN rows : Len(rows[i].embedding) # Len(op.queryEmbedding)}

\* the embedding request of the call was made and failed
embeddingFailed == ~op.cacheHit /\ ~op.embedUp

C5_NeverThrows ==
  (pc = "idle" /\ op.name \in RetrievalNames \cup {"getRecentMemories"}) =>
    /\ result.done /\ ~result.thrown
    /\ (result.ok \/ result.error # "none")
    /\ (op.chunksOutcome = "ok"
        /\ mismatched(op.allMemories) \cup mismatched(op.allChunks) # {}) =>
         result = failure("DimensionMismatch")

\* one row of the other dimension fails the call although another row matches
C5_Witness ==
  /\ Finished({"retrieveContext"})
  /\ result = failure("DimensionMismatch")
  /\ mismatched(op.allMemories) # {}
  /\ mismatched(op.allMemories) # DOMAIN op.allMemories

isZero(v) == \A i \in DOMAIN v : v[i] = 0

\* C7: with every collaborator answering and no dimension mismatch the call
\* succeeds; an empty collection gives an empty list without a search while
\* the other collection is searched; a query without keywords gives keyword
\* score 0; a zero-magnitude vector gives similarity 0.
C7_DegenerateInputs ==
  (Finished(RetrievalNames) /\ op.chunksOutcome = "ok"
   /\ mismatched(op.allMemories) \cup mismatched(op.allChunks) = {}) =>
    /\ result.ok
    /\ op.allMemories = <<>> => result.memories = <<>>
    /\ op.allChunks = <<>> => result.summaryChunks = <<>>
    /\ calls.findTopSimilar = (IF op.allMemories = <<>> THEN 0 ELSE 1)
                                + (IF op.allChunks = <<>> THEN 0 ELSE 1)
    /\ Len(op.hybridResults) = Min(op.memoryTopK, Len(op.allMemories))
    /\ Len(op.chunkResults) = Min(op.summaryTopK, Len(op.allChunks))
    /\ keywordsOf[op.query] = <<>> =>
         \A i \in DOMAIN op.hybridResults : op.hybridResults[i].keywordScore = 0
    /\ \A i \in DOMAIN op.hybridResults :
         (isZero(op.queryEmbedding) \/ isZero(op.hybridResults[i].data.embedding))
           => op.hybridResults[i].similarity = 0
    /\ \A i \in DOMAIN op.chunkResults :
         (isZero(op.queryEmbedding) \/ isZero(op.chunkResults[i].data.embedding))
           => op.chunkResults[i].similarity = 0

\* a query without keywords and with a zero vector against a stored zero
\* vector, the chunk collection empty: success, one search, scores 0
C7_Witness ==
  /\ Finished({"retrieveContext"}) /\ result.ok
  /\ keywordsOf[op.query] = <<>>
  /\ isZero(op.queryEmbedding)
  /\ op.allChunks = <<>>
  /\ calls.findTopSimilar = 1
  /\ \E i \in DOMAIN op.hybridResults :
       /\ isZero(op.hybridResults[i].data.embedding)
       /\ op.hybridResults[i].hybridScore = 0

\* what the call returns when its embedding request is answered
answeredResult ==
  IF op.memoriesOutcome # "ok" \/ op.chunksOutcome # "ok"
  THEN failure("StorageFailed")
  ELSE returned(op.name,
                rankAndFilter(op.query, Embed(op.focusedQuery), op.allMemories,
                              op.allChunks, op.memoryTopK, op.summaryTopK,
                              op.minRelevance).result)

\* what the call returns when the cache is empty
coldResult == IF op.embedUp THEN answeredResult ELSE failure("EmbeddingFailed")

\* C9 as stated: the result is the one an empty cache gives.
C9_SameResultWhateverTheCache ==
  Finished({"retrieveContext"}) => result = coldResult

\* C9: a cached vector is the one the embedding collaborator returned for
\* its text, and a call whose embedding request is answered, or whose text is
\* cached, returns what an empty cache and an answering collaborator give;
\* only a call that misses the cache fails when the collaborator fails.
C9_CacheTransparency ==
  /\ \A t \in DOMAIN embeddingCache : embeddingCache[t] = Embed(t)
  /\ Finished({"retrieveContext"}) =>
       result = IF op.cacheHit \/ op.embedUp
                THEN answeredResult
                ELSE failure("EmbeddingFailed")

\* a call served from the cache returns memories
C9_Witness ==
  /\ Finished({"retrieveContext"}) /\ result.ok
  /\ op.cacheHit /\ calls.embed = 0
  /\ result.memories # <<>>
  /\ result.queryEmbedding = Embed(op.focusedQuery)

\* the rows of the three tables
storedRows == <<database.memories, database.summaries, database.summary_chunks>>

\* C10: a step of retrieveContext, searchMemories or getRecentMemories
\* changes no stored row, whether the call succeeds or fails.
C10_RetrievalReadsOnly ==
  [][op'.name \in RetrievalNames \cup {"getRecentMemories"}
       => storedRows' = storedRows]_vars

\* a returned memory still has the access statistics it was saved with
C10_Witness ==
  /\ Finished({"retrieveContext"}) /\ result.ok
  /\ \E i \in DOMAIN result.memories :
       /\ result.memories[i].memory.accessCount = 0
       /\ result.memories[i].memory.lastAccessed = result.memories[i].memory.createdAt
       /\ \E j \in DOMAIN database.memories :
            database.memories[j] = result.memories[i].memory

\* C8: a memory stored by an earlier process is still stored, is loaded by a
\* retrieval of the current process and is returned when it is within the
\* top K and its hybrid score reaches minRelevance; no step removes a memory.
C8_RestartPersistence ==
  /\ [](persisted \subseteq idsOf(database))
  /\ []((Finished({"retrieveContext"}) /\ result.ok) =>
          \A i \in DOMAIN database.memories :
            database.memories[i].id \in persisted =>
              \E j \in DOMAIN op.allMemories :
                /\ op.allMemories[j] = database.memories[i]
                /\ (/\ rankIn(op.allMemories, j) <= op.memoryTopK
                    /\ expectedScore(op.allMemories[j]) >= op.minRelevance)
                     => op.allMemories[j] \in returnedMemories)
  /\ [][\A i \in DOMAIN database.memories :
          \E j \in DOMAIN database'.memories :
            database'.memories[j] = database.memories[i]]_vars

\* a memory saved before the restart is returned after it
C8_Witness ==
  /\ Finished({"retrieveContext"}) /\ result.ok
  /\ \E i \in DOMAIN result.memories :
       /\ result.memories[i].memory.id \in persisted
       /\ result.memories[i].memory.id >= 1

\* C6: when retrieval fails processInput returns a failure with that error,
\* does not call the text generator, saves no memory and leaves the history
\* as it was; when retrieval succeeds with nothing found the call goes on to
\* the text generator and reports memoriesFound 0 and summaryChunksFound 0.
C6_ProcessInputOnRetrieval ==
  (pc = "idle" /\ op.name = "processInput") =>
    /\ result.done
    /\ ~op.contextResult.ok =>
         /\ ~result.ok
         /\ op.contextResult.error # "none"
         /\ result.error = op.contextResult.error
         /\ calls.generateText = 0 /\ calls.saveMemory = 0
         /\ conversationHistory = op.historyBefore
    /\ (/\ op.contextResult.ok
        /\ op.contextResult.memories = <<>>
        /\ op.contextResult.summaryChunks = <<>>) =>
         /\ calls.generateText >= 1
         /\ op.assistantResponse # <<>> => result.ok
         /\ result.ok =>
              /\ result.agent.memoriesFound = 0
              /\ result.agent.summaryChunksFound = 0

\* a failed load ends a call made with two turns of history
C6_Witness ==
  /\ pc = "idle" /\ op.name = "processInput"
  /\ op.contextResult = failure("StorageFailed")
  /\ result = failure("StorageFailed")
  /\ Len(conversationHistory) = 2
  /\ calls.generateText = 0

\* what searchMemories returns when the summary chunks play no part
withoutChunks ==
  returned("searchMemories",
           rankAndFilter(op.query, op.queryEmbedding, op.allMemories, <<>>,
                         op.memoryTopK, 0, op.minRelevance).result)

\* C11: searchMemories skips the summary search: once the memories are loaded
\* its outcome is the one computed from the memories alone, whatever summary
\* chunks the store holds and whether or not reading them fails.
C11_SummarySearchSkipped ==
  (Finished({"searchMemories"}) /\ op.memoriesOutcome = "ok") =>
    result = withoutChunks

\* the value the result reports for a stored memory
reportedFor(row) ==
  LET i == CHOOSE i \in DOMAIN result.memories : result.memories[i].memory = row
  IN result.memories[i].similarity

\* the loaded memories that pass the top-K cut of the call
topKMemories ==
  {op.allMemories[i] : i \in {j \in DOMAIN op.allMemories :
                                  rankIn(op.allMemories, j) <= op.memoryTopK}}

C13_DataFlow ==
  (op.name = "retrieveContext") =>
    /\ op.focusedQuery = preprocessQuery(op.query)
    /\ (~op.cacheHit /\ op.embedUp) =>
         /\ calls.embed = 1
         /\ cacheKeys # <<>>
         /\ cacheKeys[Len(cacheKeys)] = preprocessQuery(op.query)
    /\ (Finished({"retrieveContext"}) /\ result.ok) =>
         /\ result.query = op.query
         /\ result.queryEmbedding = Embed(preprocessQuery(op.query))
         /\ \A i \in DOMAIN op.hybridResults :
              op.hybridResults[i].keywordScore =
                calculateKeywordScore(extractKeywords(op.query),
                                      op.hybridResults[i].data.content)

\* a query whose preprocessed form differs from it and would give a
\* candidate another keyword score
C13_Witness ==
  /\ Finished({"retrieveContext"}) /\ result.ok
  /\ preprocessQuery(op.query) # op.query
  /\ result.query = op.query
  /\ \E i \in DOMAIN op.hybridResults :
       op.hybridResults[i].keywordScore #
         calculateKeywordScore(extractKeywords(preprocessQuery(op.query)),
                               op.hybridResults[i].data.content)

keysOf(keys) == {keys[i] : i \in DOMAIN keys}

\* C15: the cache holds at most embeddingCacheSize entries, and every cached
\* text is in the eviction order exactly once, so that it is the one evicted
\* when it is the earliest inserted.
C15_CacheCapacity ==
  /\ Cardinality(DOMAIN embeddingCache) <= embeddingCacheSize
  /\ keysOf(cacheKeys) = DOMAIN embeddingCache
  /\ Len(cacheKeys) = Cardinality(DOMAIN embeddingCache)

\* C16: findTopSimilar returns min(k, n) items, each a candidate of the input
\* with its cosine similarity to the query, no candidate twice, in
\* non-increasing similarity order, equal similarities in input order; no
\* candidate left out has a higher similarity than a returned one; the
\* inputs are as they were.
C16_FindTopSimilar ==
  (op.name = "findTopSimilar" /\ ~op.output.thrown) =>
    LET query == op.input.query
        vectors == op.input.vectors
        out == op.output.results
        sim(i) == cosineSimilarity(query, vectors[i].vector)
        ids == {out[p].id : p \in DOMAIN out}
    IN /\ Len(out) = Min(op.input.topK, Len(vectors))
       /\ \A p \in DOMAIN out :
            \E i \in DOMAIN vectors :
              out[p] = [id |-> vectors[i].id, similarity |-> sim(i),
                        data |-> vectors[i].data]
       /\ Cardinality(ids) = Len(out)
       /\ \A p, r \in DOMAIN out :
            p < r => /\ out[p].similarity >= out[r].similarity
                     /\ out[p].similarity = out[r].similarity => out[p].id < out[r].id
       /\ \A i \in DOMAIN vectors, p \in DOMAIN out :
            vectors[i].id \notin ids => sim(i) <= out[p].similarity
       /\ op.inputAfter = op.input

\* three candidates, the last two of equal similarity above the first's, and
\* top-K 2: the first candidate is left out and the tie keeps its order
C16_Witness ==
  /\ op.name = "findTopSimilar" /\ ~op.output.thrown
  /\ op.input.topK = 2
  /\ Len(op.input.vectors) = 3
  /\ Len(op.output.results) = 2
  /\ op.output.results[1].id = 2 /\ op.output.results[2].id = 3
  /\ op.output.results[1].similarity = op.output.results[2].similarity
  /\ op.output.results[1].similarity = Scale

\* the lines of the text given to chunkText
inputLines == splitLines(op.input.text, 1, <<>>)

\* C17: every chunk but the last has at most maxChars characters.
C17_ChunkSizeBound ==
  (op.name = "chunkText") =>
    \A c \in 1..(Len(op.output) - 1) :
      Len(op.output[c].text) <= op.input.options.maxChars

\* C18: there is at least one chunk, the first starts at line 0, the last
\* ends at the last line and holds the last line, each later chunk starts no
\* later than the line after the previous chunk's end, and every line of
\* the input is in the span of some chunk.
C18_ChunkCoverage ==
  (op.name = "chunkText") =>
    /\ Len(op.output) >= 1
    /\ op.output[1].startLine = 0
    /\ op.output[Len(op.output)].endLine = Len(inputLines) - 1
    /\ \A c \in 2..Len(op.output) :
         op.output[c].startLine <= op.output[c - 1].endLine + 1
    /\ \A line \in 0..(Len(inputLines) - 1) :
         \E c \in 1..Len(op.output) :
           op.output[c].startLine <= line /\ line <= op.output[c].endLine
    /\ LET last == splitLines(op.output[Len(op.output)].text, 1, <<>>)
       IN last[Len(last)] = inputLines[Len(inputLines)]

\* the loop closed a chunk on the second of three lines; that line and the
\* last one are in the final chunk, which stays under maxChars
C18_Witness ==
  /\ op.name = "chunkText"
  /\ Len(inputLines) = 3
  /\ Len(op.output) = 2
  /\ op.output[1].endLine = 1
  /\ op.output[2].startLine = 1
  /\ op.output[2].endLine = 2
  /\ Len(op.output[2].text) < op.input.options.maxChars

\* C20: a text of fewer than maxChars characters gives exactly one chunk,
\* which holds the whole text; a text of one line longer than maxChars is
\* not split: every chunk returned for it is the whole line.
C20_ChunkerDegenerateCases ==
  (op.name = "chunkText") =>
    /\ Len(op.input.text) < op.input.options.maxChars =>
         /\ Len(op.output) = 1
         /\ op.output[1].text = op.input.text
    /\ (Len(inputLines) = 1 /\ Len(op.input.text) > op.input.options.maxChars) =>
         \A c \in 1..Len(op.output) : op.output[c].text = op.input.text

\* C19: every chunk of chunkText and every stored summary chunk row has
\* charEnd - charStart = length(content), and a chunk made with
\* overlapChars > 0 starts no later than the previous chunk of its text ends.
C19_ChunkOffsets ==
  /\ (op.name \in {"chunkText", "saveSummary"}) =>
       /\ \A c \in 1..Len(op.output) :
            op.output[c].charEnd - op.output[c].charStart = Len(op.output[c].text)
       /\ (op.name = "saveSummary" \/ op.input.options.overlapChars > 0) =>
            \A c \in 2..Len(op.output) :
              op.output[c].charStart <= op.output[c - 1].charEnd
  /\ \A r \in 1..Len(database.summary_chunks) :
       LET row == database.summary_chunks[r]
       IN /\ row.charEnd - row.charStart = Len(row.content)
          /\ (r > 1 /\ database.summary_chunks[r - 1].summaryId = row.summaryId) =>
               row.charStart <= database.summary_chunks[r - 1].charEnd

\* a summary was stored in three chunks that overlap
C19_Witness ==
  /\ op.name = "saveSummary" /\ result.ok
  /\ Len(database.summary_chunks) = 3
  /\ database.summary_chunks[1].charEnd > database.summary_chunks[2].charStart
  /\ database.summary_chunks[2].charStart > 0
  /\ database.summary_chunks[3].charEnd = Len(op.query)

\* the keywords of the call that are among the document's extracted keywords
matchedKeywords ==
  {i \in 1..Len(op.input.queryKeywords) :
     op.input.queryKeywords[i] \in Range(extractKeywords(op.input.documentText))}

\* the space-joined query phrase stands verbatim in the lowercased document
phraseInDocument ==
  Includes(toLowerCase(op.input.documentText), join(op.input.queryKeywords, SP))

\* C21: calculateKeywordScore returns exactly 1.0 when every query keyword is
\* among the document's extracted keywords and the space-joined query phrase
\* stands verbatim in the lowercased document; it returns exactly 0.0 when
\* queryKeywords is empty or when none of the query keywords is among the
\* document's keywords; the result always lies in [0, 1].
C21_KeywordScoreContract ==
  op.name = "calculateKeywordScore" =>
    /\ (/\ Len(op.input.queryKeywords) > 0
        /\ matchedKeywords = 1..Len(op.input.queryKeywords)
        /\ phraseInDocument) => op.output = Scale
    /\ (Len(op.input.queryKeywords) = 0 \/ matchedKeywords = {}) => op.output = 0
    /\ op.output >= 0
    /\ op.output <= Scale

\* C22 as stated: calculateHybridScore returns
\* vectorSim * vectorWeight + keywordScore * (1 - vectorWeight), the weight of
\* a call without vectorWeight is 0.8, and calculateHybridScore(0.5, 1.0) is 0.60.
C22_HybridScoreDefaultEightTenths ==
  op.name = "calculateHybridScore" =>
    /\ op.output * Scale =
         op.input[1] * vectorWeightOfEightTenths(op.input)
           + op.input[2] * (Scale - vectorWeightOfEightTenths(op.input))
    /\ op.input = <<Scale \div 2, Scale>> => 100 * op.output = 60 * Scale

\* C22, amended: calculateHybridScore returns
\* vectorSim * vectorWeight + keywordScore * (1 - vectorWeight); the weight of a
\* call without vectorWeight is 0.7, so calculateHybridScore(0.5, 1.0) is 0.65,
\* and calculateHybridScore(0.5, 1.0, 0.8) is 0.60.
C22_HybridScoreDefaultSevenTenths ==
  op.name = "calculateHybridScore" =>
    /\ Len(op.input) = 3 =>
         op.output * Scale =
           op.input[1] * op.input[3] + op.input[2] * (Scale - op.input[3])
    /\ Len(op.input) = 2 =>
         10 * op.output * Scale = op.input[1] * 7 * Scale + op.input[2] * 3 * Scale
    /\ op.input = <<Scale \div 2, Scale>> => 100 * op.output = 65 * Scale
    /\ op.input = <<Scale \div 2, Scale, (8 * Scale) \div 10>> =>
         100 * op.output = 60 * Scale

C22_Witness ==
  /\ op.name = "calculateHybridScore"
  /\ op.input = <<Scale \div 2, Scale>>
  /\ 100 * op.output = 65 * Scale

\* the question "<head> <subject>?"
question(head, subject) == head \o SP \o subject \o <<"?">>

\* C23: preprocessQuery("do you have my name?") = "my name" and
\* preprocessQuery("what is my name?") = "my name"; after prefix stripping, a
\* query "do you (have|know|remember) X?" becomes X, "do I V X?" becomes
\* "V X", and "what is X?", "what's X?", "where is X?", "when is X?" become X,
\* with only the first matching rule applied.
C23_QuestionRewriting ==
  op.name = "preprocessQuery" =>
    /\ op.input = question(W.do \o SP \o W.you \o SP \o W.have,
                           <<"m","y"," ","n","a","m","e">>)
         => op.output = <<"m","y"," ","n","a","m","e">>
    /\ op.input = QueryName => op.output = <<"m","y"," ","n","a","m","e">>
    /\ \A x \in UtilInputs.subjects :
         /\ \A h \in {W.do \o SP \o W.you \o SP \o W.have,
                      W.do \o SP \o W.you \o SP \o W.know,
                      W.do \o SP \o W.you \o SP \o W.remember,
                      W.what \o SP \o W.is, W.what \o <<"'", "s">>,
                      W.where \o SP \o W.is, W.when \o SP \o W.is} :
              stripConversational(op.input) = question(h, x) => op.output = x
         /\ stripConversational(op.input)
              = question(W.do \o SP \o <<"I">> \o SP \o <<"l","o","v","e">>, x)
              => op.output = <<"l","o","v","e">> \o SP \o x
    /\ op.input = W.what \o SP \o W.is \o SP \o <<"s","a","m","?"," ">>
                    \o W.where \o SP \o W.is \o SP \o <<"i","t","?">>
         => op.output = <<"s","a","m"," ">> \o W.where \o SP \o W.is
                          \o SP \o <<"i","t","?">>

\* the summary_chunks rows of the summary saveSummary stored last
chunksOfLastSummary ==
  IF database.summaries = <<>> THEN <<>>
  ELSE SelectSeq(database.summary_chunks,
                 LAMBDA row : row.summaryId = database.summaries[Len(database.summaries)].id)

\* the summaries INSERT of the last saveSummary call failed
metadataFailed == result.error = "StorageFailed" /\ calls.embed = 0

\* C25: every stored summary chunk references an existing summary row; after
\* saveSummary whose summary row was stored, the chunk rows of the summary
\* are the first chunks of chunkText(content) in order, each with the
\* summary's id and the embedding of its text, the embeddings answered are as
\* many as the rows or one more (each row follows its own embedding and
\* precedes the next request), and on success there is exactly one row per
\* chunk; a call whose summary row was not stored leaves no row of its own.
C25_SummaryWriteOrder ==
  /\ \A r \in 1..Len(database.summary_chunks) :
       \E m \in 1..Len(database.summaries) :
         database.summaries[m].id = database.summary_chunks[r].summaryId
  /\ (op.name = "saveSummary" /\ ~metadataFailed) =>
       /\ database.summaries # <<>>
       /\ Len(chunksOfLastSummary) <= Len(op.output)
       /\ \A c \in 1..Len(chunksOfLastSummary) :
            /\ chunksOfLastSummary[c].content = op.output[c].text
            /\ chunksOfLastSummary[c].startLine = op.output[c].startLine
            /\ chunksOfLastSummary[c].embedding = Embed(op.output[c].text)
       /\ Len(chunksOfLastSummary) <= calls.embed
       /\ calls.embed <= Len(chunksOfLastSummary) + 1
       /\ result.ok <=> Len(chunksOfLastSummary) = Len(op.output)
       /\ result.ok => calls.embed = Len(op.output)
  /\ (op.name = "saveSummary" /\ metadataFailed) =>
       /\ \A m \in 1..Len(database.summaries) : database.summaries[m].id < nextId
       /\ \A r \in 1..Len(database.summary_chunks) : database.summary_chunks[r].id < nextId

\* the INSERT of the second of three chunks failed after its embedding was
\* answered: one row, two embeddings
C25_Witness ==
  /\ op.name = "saveSummary"
  /\ Len(op.output) = 3
  /\ result.error = "StorageFailed"
  /\ Len(chunksOfLastSummary) = 1
  /\ calls.embed = 2

\* the lines of the text a chunk's span names
spanLines(chunk) ==
  [k \in 1..(chunk.endLine - chunk.startLine + 1) |-> inputLines[chunk.startLine + k]]

\* C26: for every text and every options value, each chunk of chunkText has
\* 0 <= startLine <= endLine, its text is the input lines startLine..endLine
\* joined by newline, and its text is the input substring charStart..charEnd.
C26_ChunkMatchesSpans ==
  (op.name = "chunkText") =>
    \A c \in 1..Len(op.output) :
      /\ 0 <= op.output[c].startLine
      /\ op.output[c].startLine <= op.output[c].endLine
      /\ op.output[c].endLine < Len(inputLines)
      /\ op.output[c].text = join(spanLines(op.output[c]), <<NL>>)
      /\ 0 <= op.output[c].charStart
      /\ op.output[c].charEnd <= Len(op.input.text)
      /\ op.output[c].text =
           SubSeq(op.input.text, op.output[c].charStart + 1, op.output[c].charEnd)

\* the rows a table gained in a step
gained(before, after) == SubSeq(after, Len(before) + 1, Len(after))

\* C28: a saveSummary that fails at a chunk leaves the summary row and the
\* rows of the chunks before it in the store, where getAllSummaryChunks
\* finds them; a saveSummary whose summary row INSERT fails leaves every
\* table as it was.
C28_NoRollbackOnFailure ==
  [][(op'.name = "saveSummary" /\ ~result'.ok) =>
       /\ database'.memories = database.memories
       /\ SubSeq(database'.summaries, 1, Len(database.summaries)) = database.summaries
       /\ SubSeq(database'.summary_chunks, 1, Len(database.summary_chunks))
            = database.summary_chunks
       /\ metadataFailed' =>
            /\ database'.summaries = database.summaries
            /\ database'.summary_chunks = database.summary_chunks
       /\ ~metadataFailed' =>
            /\ Len(database'.summaries) = Len(database.summaries) + 1
            /\ Len(gained(database.summary_chunks, database'.summary_chunks))
                 = IF result'.error = "StorageFailed"
                   THEN calls'.embed - 1 ELSE calls'.embed
            /\ Len(gained(database.summary_chunks, database'.summary_chunks))
                 < Len(op'.output)
            /\ \A c \in 1..Len(gained(database.summary_chunks, database'.summary_chunks)) :
                 /\ gained(database.summary_chunks, database'.summary_chunks)[c].content
                      = op'.output[c].text
                 /\ \E g \in 1..Len(getAllSummaryChunks(database')) :
                      getAllSummaryChunks(database')[g]
                        = gained(database.summary_chunks, database'.summary_chunks)[c]]_vars

\* saveSummary failed at the embedding of the third chunk: the summary row
\* and two chunk rows are in the store
C28_Witness ==
  /\ op.name = "saveSummary"
  /\ result.error = "EmbeddingFailed"
  /\ Len(database.summaries) = 1
  /\ Len(database.summary_chunks) = 2
  /\ Len(op.output) = 3

\* the candidates of the extraction answer that have confidence 0.7 or more
confidentCandidates ==
  {i \in 1..Len(op.input.memories) :
     10 * op.input.memories[i].confidence >= 7 * Scale}

\* processInput returned after the text generator answered
turnAnswered ==
  /\ pc = "idle"
  /\ op.name = "processInput"
  /\ op.assistantResponse # <<>>

\* C30: once the response is generated processInput returns success with it,
\* whatever the extraction request, its parsing and the saveMemory calls do;
\* the history gains the user turn and then the assistant turn; saveMemory is
\* called once per candidate of confidence >= 0.7 and for no other;
\* memoriesExtracted is the number of those candidates, and is at least the
\* number of memories the call wrote.
C30_ExtractionBestEffort ==
  /\ turnAnswered =>
       /\ result.ok
       /\ result.agent.message = op.assistantResponse
       /\ conversationHistory =
            addTurn(addTurn(op.historyBefore, "user", op.query, now),
                    "assistant", op.assistantResponse, now)
       /\ op.input.outcome # "ok" => calls.saveMemory = 0
       /\ calls.saveMemory = Cardinality(confidentCandidates)
       /\ result.agent.memoriesExtracted = Cardinality(confidentCandidates)
       /\ Len(database.memories) - Len(op.allMemories) <= result.agent.memoriesExtracted
  /\ (op.name = "processInput" /\ pc = "saveExtracted") =>
       10 * Head(op.toSave).confidence >= 7 * Scale

\* two candidates of confidence 0.7 and 0.8 were extracted, one saveMemory
\* failed: memoriesExtracted is 2 and one memory was written
C30_Witness ==
  /\ turnAnswered
  /\ result.ok
  /\ result.agent.memoriesExtracted = 2
  /\ calls.saveMemory = 2
  /\ Len(database.memories) - Len(op.allMemories) = 1
  /\ Len(conversationHistory) = Len(op.historyBefore) + 2

\* the calls made on the session after its last clear()
callsSinceClear ==
  LET cs == op.input.calls
      clears == {i \in 1..Len(cs) : cs[i] = "clear"}
      last == IF clears = {} THEN 0 ELSE CHOOSE i \in clears : \A j \in clears : j <= i
  IN [k \in 1..(Len(cs) - last) |-> last + k]

\* C29: on an AgentSession constructed with maxHistoryTurns = N >= 0, after
\* any sequence of addTurn and clear calls getHistory() has at most N turns
\* and is the last min(N, turns added since the last clear) turns in the order
\* they were added; a push on the returned list leaves the session as it was.
C29_BoundedHistory ==
  op.name = "AgentSession" =>
    /\ Len(op.output.history) <= op.input.maxHistoryTurns
    /\ Len(op.output.history) = Min(op.input.maxHistoryTurns, Len(callsSinceClear))
    /\ \A k \in 1..Len(op.output.history) :
         /\ op.output.history[k].timestamp
              = callsSinceClear[Len(callsSinceClear) - Len(op.output.history) + k]
         /\ op.output.history[k].role = op.input.calls[op.output.history[k].timestamp]
    /\ op.output.historyAfterPush = op.output.history

\* C27: under any interleaving of the generateEmbedding calls of a batch, two
\* calls for the same text included, the key list holds exactly the keys of
\* the cache map, each once, and the map holds at most embeddingCacheSize
\* entries.
C27_CacheUnderConcurrency ==
  /\ keysOf(cacheKeys) = DOMAIN embeddingCache
  /\ Len(cacheKeys) = Cardinality(DOMAIN embeddingCache)
  /\ Cardinality(DOMAIN embeddingCache) <= ConcurrentCacheSize

\* processInput handed a prompt to the text generator
promptHandedOver == op.name = "processInput" /\ calls.generateText >= 1

\* the retrieved context and the history of the call, before any truncation
builtPrompt == buildPrompt(op.query, op.contextResult, op.historyBefore)

====
